---- MODULE Spec2Model ----
(***************************************************************************)
(* A model of the caption engine (src/caption_engine): the theme catalog,  *)
(* the line segmenter, the colour/time codec, the animation styles, the    *)
(* ASS document builder and the generator facade.                          *)
(*                                                                         *)
(* Representation.                                                         *)
(*  - A text (str) is a TLA+ string; Chars gives its characters where the  *)
(*    code works on them and Str joins characters back into a text.        *)
(*  - A time (a float of seconds in the source) is an integer number of    *)
(*    ticks, SEC ticks to the second, so 0.1 s is SEC \div 10.  Sums and  *)
(*    differences of times are exact; the rounding of binary floating      *)
(*    point is modelled where a time is turned into centiseconds of a      *)
(*    document time (seconds_to_ass_time), the ticks standing for the      *)
(*    double nearest to them.                                              *)
(*  - A dict is a function from keys to values, a dataclass is a record.   *)
(*  - A raised exception is a result record of kind "error".               *)
(***************************************************************************)
EXTENDS Integers, Sequences, FiniteSets, TLC

VARIABLES
    catalog,    \* themes.DEFAULT_THEMES: key -> Theme, shared by every call
    op,         \* the engine call that completed last ("init" before any)
    args,       \* its arguments
    result,     \* what it returned or raised
    stages,     \* the intermediate values of that call's pipeline (the
                \* ASSBuilder itself where the builder is driven directly)
    history,    \* the completed calls, oldest first (sequential engine)
    pc,         \* concurrent engine: each thread's position in its call
    frame       \* concurrent engine: each thread's local variables

vars == <<catalog, op, args, result, stages, history, pc, frame>>

-----------------------------------------------------------------------------
(* Bounds of the model. *)

MaxWords == 4       \* longest word list given to the segmenter
MaxWpl == 3         \* largest words_per_line given to the segmenter
MaxChars == 6       \* largest max_chars_per_line given to the segmenter

-----------------------------------------------------------------------------
(* Texts. *)

SEC == 1000

\* None, and a present optional value
None == <<>>

Some(v) == <<v>>

\* With(e, LAMBDA x : body) is the assignment x = e followed by body: e is
\* evaluated once, where it is bound.
With(value, Body(_)) == Body(value)

Range(s) == {s[i] : i \in DOMAIN s}

\* The characters of a text, and the text of a sequence of characters.
Chars(s) == [i \in 1..Len(s) |-> SubSeq(s, i, i)]

RECURSIVE Str(_)
Str(cs) == IF cs = <<>> THEN "" ELSE Head(cs) \o Str(Tail(cs))

\* sep.join(parts)
RECURSIVE Join(_, _)
Join(sep, parts) ==
    IF parts = <<>> THEN ""
    ELSE IF Len(parts) = 1 THEN parts[1]
    ELSE parts[1] \o sep \o Join(sep, Tail(parts))

UpperAlpha ==
    <<"A", "B", "C", "D", "E", "F", "G", "H", "I", "J", "K", "L", "M", "N",
      "O", "P", "Q", "R", "S", "T", "U", "V", "W", "X", "Y", "Z">>

LowerAlpha ==
    <<"a", "b", "c", "d", "e", "f", "g", "h", "i", "j", "k", "l", "m", "n",
      "o", "p", "q", "r", "s", "t", "u", "v", "w", "x", "y", "z">>

\* str.lower() and str.upper(), character by character
LowerChar(c) ==
    IF \E i \in DOMAIN UpperAlpha : UpperAlpha[i] = c
    THEN LowerAlpha[CHOOSE i \in DOMAIN UpperAlpha : UpperAlpha[i] = c]
    ELSE c

UpperChar(c) ==
    IF \E i \in DOMAIN LowerAlpha : LowerAlpha[i] = c
    THEN UpperAlpha[CHOOSE i \in DOMAIN LowerAlpha : LowerAlpha[i] = c]
    ELSE c

lower(s) == Str([i \in 1..Len(s) |-> LowerChar(SubSeq(s, i, i))])

upper(s) == Str([i \in 1..Len(s) |-> UpperChar(SubSeq(s, i, i))])

\* f"{n}"
IntStr(n) == ToString(n)

\* f"{n:02d}"
IntStr02(n) == IF 0 <= n /\ n < 10 THEN "0" \o ToString(n) ELSE ToString(n)

\* int(x) of the quotient n / d, d > 0: truncation toward zero
Trunc(n, d) == IF n >= 0 THEN n \div d ELSE -((-n) \div d)

-----------------------------------------------------------------------------
(* utils.py: Word and CaptionLine. *)

Word(text, start, end, confidence) ==
    [text |-> text, start |-> start, end |-> end, confidence |-> confidence]

duration(word) == word.end - word.start

duration_cs(word) == Trunc(duration(word) * 100, SEC)

CaptionLine(words) == [words |-> words]

line_text(line) == Join(" ", [i \in DOMAIN line.words |-> line.words[i].text])

line_start(line) == IF line.words # <<>> THEN line.words[1].start ELSE 0

line_end(line) == IF line.words # <<>> THEN line.words[Len(line.words)].end ELSE 0

-----------------------------------------------------------------------------
(* utils.py: group_words_into_lines. *)

\* A variant of would_exceed_words that closes the line one word late.
would_exceed_words_late(current_words, words_per_line) ==
    Len(current_words) > words_per_line

\* A variant of would_exceed_words that closes a line one word early.
would_exceed_words_early(current_words, words_per_line) ==
    Len(current_words) + 1 >= words_per_line

would_exceed_words(current_words, words_per_line) ==
    Len(current_words) >= words_per_line

\* A variant of would_exceed_chars that closes a line the word fills exactly.
would_exceed_chars_early(current_chars, word_len, max_chars_per_line) ==
    current_chars + word_len + 1 >= max_chars_per_line

would_exceed_chars(current_chars, word_len, max_chars_per_line) ==
    current_chars + word_len + 1 > max_chars_per_line

\* One pass of the loop body over `word`; st = [lines, current_words, current_chars].
group_step(st, word, words_per_line, max_chars_per_line) ==
    LET word_len == Len(word.text)
        close == /\ st.current_words # <<>>
                 /\ \/ would_exceed_words(st.current_words, words_per_line)
                    \/ would_exceed_chars(st.current_chars, word_len, max_chars_per_line)
        s1 == IF close
              THEN [lines |-> Append(st.lines, CaptionLine(st.current_words)),
                    current_words |-> <<>>, current_chars |-> 0]
              ELSE st
    IN  [lines |-> s1.lines,
         current_words |-> Append(s1.current_words, word),
         current_chars |-> s1.current_chars + word_len + 1]

RECURSIVE group_loop(_, _, _, _)
group_loop(st, words, words_per_line, max_chars_per_line) ==
    IF words = <<>> THEN st
    ELSE group_loop(group_step(st, Head(words), words_per_line, max_chars_per_line),
                    Tail(words), words_per_line, max_chars_per_line)

\* A variant of group_flush that forgets the last partial line.
group_flush_forgotten(st) == st.lines

\* The flush of the last partial line.
group_flush(st) ==
    IF st.current_words # <<>>
    THEN Append(st.lines, CaptionLine(st.current_words))
    ELSE st.lines

group_words_into_lines(words, words_per_line, max_chars_per_line) ==
    IF words = <<>> THEN <<>>
    ELSE group_flush(group_loop([lines |-> <<>>, current_words |-> <<>>, current_chars |-> 0],
                                words, words_per_line, max_chars_per_line))

-----------------------------------------------------------------------------
(* Results: a returned value, or a raised exception. *)

Ok(v) == [kind |-> "ok", value |-> v]

Raise(type, message) == [kind |-> "error", type |-> type, message |-> message]

IsOk(r) == r.kind = "ok"

IsError(r) == r.kind = "error"

-----------------------------------------------------------------------------
(* utils.py: the colour and time codec, alignment, margins, escaping. *)

HexDigits ==
    <<"0", "1", "2", "3", "4", "5", "6", "7", "8", "9", "A", "B", "C", "D",
      "E", "F">>

IsHexChar(c) == LET u == UpperChar(c) IN \E i \in DOMAIN HexDigits : HexDigits[i] = u

HexVal(c) == LET u == UpperChar(c) IN (CHOOSE i \in DOMAIN HexDigits : HexDigits[i] = u) - 1

\* int(s, 16) of a slice of hex digits; raises on the empty slice and on any
\* other character
RECURSIVE HexInt(_)
HexInt(cs) == IF cs = <<>> THEN 0 ELSE HexInt(SubSeq(cs, 1, Len(cs) - 1)) * 16 + HexVal(cs[Len(cs)])

CanHexInt(cs) == cs # <<>> /\ \A i \in DOMAIN cs : IsHexChar(cs[i])

\* f"{n:02X}"
Hex02(n) ==
    IF n < 16 THEN "0" \o HexDigits[n + 1]
    ELSE HexDigits[(n \div 16) + 1] \o HexDigits[(n % 16) + 1]

\* s.lstrip('#')
RECURSIVE lstrip_hash(_)
lstrip_hash(cs) == IF cs # <<>> /\ Head(cs) = "#" THEN lstrip_hash(Tail(cs)) ELSE cs

\* s[a:b] with 0 <= a <= b (Python slice, clipped to the text)
Slice(cs, a, b) ==
    LET hi == IF b < Len(cs) THEN b ELSE Len(cs)
    IN  IF a >= hi THEN <<>> ELSE SubSeq(cs, a + 1, hi)

\* A variant of hex_to_ass_color that keeps the bytes in the order R, G, B.
hex_to_ass_color_rgb(hex_color) ==
    With(lstrip_hash(Chars(hex_color)), LAMBDA stripped :
    With(IF Len(stripped) = 3
         THEN <<stripped[1], stripped[1], stripped[2], stripped[2],
                stripped[3], stripped[3]>>
         ELSE stripped, LAMBDA digits :
    With(<<Slice(digits, 0, 2), Slice(digits, 2, 4), Slice(digits, 4, 6)>>, LAMBDA rgb :
        IF \E i \in 1..3 : ~CanHexInt(rgb[i])
        THEN Raise("ValueError", "invalid literal for int() with base 16")
        ELSE Ok("&H00" \o Hex02(HexInt(rgb[1])) \o Hex02(HexInt(rgb[2]))
                \o Hex02(HexInt(rgb[3]))))))

hex_to_ass_color(hex_color) ==
    With(lstrip_hash(Chars(hex_color)), LAMBDA stripped :
    With(IF Len(stripped) = 3
         THEN <<stripped[1], stripped[1], stripped[2], stripped[2],
                stripped[3], stripped[3]>>
         ELSE stripped, LAMBDA digits :
    With(<<Slice(digits, 0, 2), Slice(digits, 2, 4), Slice(digits, 4, 6)>>, LAMBDA rgb :
        IF \E i \in 1..3 : ~CanHexInt(rgb[i])
        THEN Raise("ValueError", "invalid literal for int() with base 16")
        ELSE Ok("&H00" \o Hex02(HexInt(rgb[3])) \o Hex02(HexInt(rgb[2]))
                \o Hex02(HexInt(rgb[1]))))))

\* floor(log2(t / d)) for t, d > 0: the binary exponent of the double t / d
RECURSIVE FloorLog2(_, _)
FloorLog2(t, d) ==
    IF t >= 2 * d THEN FloorLog2(t, 2 * d) + 1
    ELSE IF t < d THEN FloorLog2(2 * t, d) - 1
    ELSE 0

\* 2^m % n
RECURSIVE Pow2Mod(_, _)
Pow2Mod(m, n) == IF m = 0 THEN 1 % n ELSE (2 * Pow2Mod(m - 1, n)) % n

\* 2^e for 0 <= e; every e above 6 counts as 6
Pow2Capped(e) == CASE e <= 0 -> 1 [] e = 1 -> 2 [] e = 2 -> 4 [] e = 3 -> 8
                   [] e = 4 -> 16 [] e = 5 -> 32 [] OTHER -> 64

\* The double (seconds % 1) * 100 is below the whole number c of
\* centiseconds that seconds has.  A time of `seconds` ticks is the double
\* nearest to seconds / SEC, of 53 significant bits: scaled by 2^m,
\* m = 52 - k, it is a whole number, r / SEC below the exact value when
\* r = (seconds * 2^m) % SEC is under SEC / 2 (above it otherwise).  The
\* remainder modulo 1 is exact, and the product by 100 is c less
\* 100 * r / (SEC * 2^m), rounded to 53 bits again: to c when that is at
\* most half the distance between c and the double below c, below c
\* otherwise.
product_below(seconds, c) ==
    With(FloorLog2(seconds, SEC), LAMBDA k :
    With(FloorLog2(c, 1), LAMBDA j :
    With(((seconds % SEC) * Pow2Mod(52 - k, SEC)) % SEC, LAMBDA r :
    With(IF c = Pow2Capped(j) THEN j - 2 - k ELSE j - 1 - k, LAMBDA e :
        /\ 0 < r
        /\ 2 * r < SEC
        /\ ~(e >= 0 /\ 100 * r <= SEC * Pow2Capped(e))))))

\* int((seconds % 1) * 100).  Times below 0 are taken in exact arithmetic.
centisecs(seconds) ==
    With(((seconds % SEC) * 100) \div SEC, LAMBDA c :
        IF seconds > 0 /\ c > 0 /\ ((seconds % SEC) * 100) % SEC = 0
              /\ product_below(seconds, c)
        THEN c - 1
        ELSE c)

seconds_to_ass_time(seconds) ==
    LET hours == seconds \div (3600 * SEC)
        minutes == (seconds % (3600 * SEC)) \div (60 * SEC)
        secs == (seconds % (60 * SEC)) \div SEC
    IN  IntStr(hours) \o ":" \o IntStr02(minutes) \o ":" \o IntStr02(secs)
            \o "." \o IntStr02(centisecs(seconds))

\* The position of the first c of text at or after i
RECURSIVE Find(_, _, _)
Find(text, i, c) ==
    IF i > Len(text) \/ SubSeq(text, i, i) = c THEN i ELSE Find(text, i + 1, c)

\* int(digits), with an optional "-" in front
RECURSIVE ParseInt(_)
ParseInt(digits) ==
    IF digits = "" THEN 0
    ELSE IF SubSeq(digits, 1, 1) = "-" THEN -ParseInt(SubSeq(digits, 2, Len(digits)))
    ELSE 10 * ParseInt(SubSeq(digits, 1, Len(digits) - 1))
         + (CHOOSE d \in 0..9 : ToString(d) = SubSeq(digits, Len(digits), Len(digits)))

\* The time of 'H:MM:SS.CC', in ticks
ass_time_to_seconds(ass_time) ==
    With(Find(ass_time, 1, ":"), LAMBDA c1 :
    With(Find(ass_time, c1 + 1, ":"), LAMBDA c2 :
    With(Find(ass_time, c2 + 1, "."), LAMBDA dot :
        ParseInt(SubSeq(ass_time, 1, c1 - 1)) * 3600 * SEC
        + ParseInt(SubSeq(ass_time, c1 + 1, c2 - 1)) * 60 * SEC
        + ParseInt(SubSeq(ass_time, c2 + 1, dot - 1)) * SEC
        + (IF dot < Len(ass_time)
           THEN (ParseInt(SubSeq(ass_time, dot + 1, Len(ass_time))) * SEC) \div 100
           ELSE 0))))

\* A variant of alignment_to_ass whose top band reaches position_y 33.
alignment_to_ass_wide_top(alignment, position_y) ==
    LET v_offset == IF position_y <= 33 THEN 6
                    ELSE IF position_y < 66 THEN 3
                    ELSE 0
        h_base == IF alignment = "left" THEN 1
                  ELSE IF alignment = "right" THEN 3
                  ELSE 2
    IN  v_offset + h_base

alignment_to_ass(alignment, position_y) ==
    LET v_offset == IF position_y < 33 THEN 6
                    ELSE IF position_y < 66 THEN 3
                    ELSE 0
        h_base == IF alignment = "left" THEN 1
                  ELSE IF alignment = "right" THEN 3
                  ELSE 2
    IN  v_offset + h_base

\* text.replace(old, new) for a one-character old
replace(text, old, new) ==
    Str([i \in 1..Len(text) |->
            IF SubSeq(text, i, i) = old THEN new ELSE SubSeq(text, i, i)])

\* A variant of escape_ass_text that escapes the backslashes last.
escape_ass_text_braces_first(text) ==
    LET t1 == replace(text, "{", "\\{")
        t2 == replace(t1, "}", "\\}")
        t3 == replace(t2, "\n", "\\N")
    IN  replace(t3, "\\", "\\\\")

escape_ass_text(text) ==
    LET t1 == replace(text, "\\", "\\\\")
        t2 == replace(t1, "{", "\\{")
        t3 == replace(t2, "}", "\\}")
    IN  replace(t3, "\n", "\\N")

\* A variant of calculate_font_bold that takes 700 as not bold.
calculate_font_bold_above(weight) == weight > 700

calculate_font_bold(weight) == weight >= 700

calculate_margin_v(position_y, video_height) ==
    IF position_y > 50
    THEN Trunc(video_height * (100 - position_y), 100)
    ELSE Trunc(video_height * position_y, 100)

-----------------------------------------------------------------------------
(* themes.py: AnimationStyle, Alignment, Theme and the catalog. *)

\* The values of the enum AnimationStyle
AnimationStyle == {"none", "karaoke", "bounce", "pop", "glow", "wave"}

\* The values of the enum Alignment
Alignment == {"left", "center", "right"}

\* The defaults of the dataclass fields of Theme (name has none).
\* animation_speed is the float 1.0.
ThemeDefaults ==
    [font_family |-> "Montserrat", font_size |-> 80, font_weight |-> 800,
     text_color |-> "#FFFFFF", highlight_color |-> "#FFFF00",
     outline_color |-> "#000000", shadow_color |-> "#000000",
     background_color |-> None,
     position_x |-> 50, position_y |-> 70, alignment |-> "center",
     outline_width |-> 4, shadow_offset |-> 2, shadow_blur |-> 0,
     animation_style |-> "karaoke", animation_speed |-> 1,
     words_per_line |-> 3, max_chars_per_line |-> 30, line_spacing |-> 10,
     uppercase |-> FALSE, letter_spacing |-> 0,
     is_default |-> FALSE, is_custom |-> FALSE]

ThemeFields == DOMAIN ThemeDefaults \cup {"name"}

\* Theme(**kw): the dataclass constructor
Theme(kw) ==
    IF ~(DOMAIN kw \subseteq ThemeFields)
    THEN Raise("TypeError", "__init__() got an unexpected keyword argument")
    ELSE IF "name" \notin DOMAIN kw
    THEN Raise("TypeError", "__init__() missing 1 required positional argument: 'name'")
    ELSE Ok(kw @@ ThemeDefaults)

\* Theme.from_dict(data): the enum conversions, then the constructor
from_dict(data) ==
    IF "alignment" \in DOMAIN data /\ data["alignment"] \notin Alignment
    THEN Raise("ValueError", data["alignment"] \o " is not a valid Alignment")
    ELSE IF "animation_style" \in DOMAIN data /\ data["animation_style"] \notin AnimationStyle
    THEN Raise("ValueError", data["animation_style"] \o " is not a valid AnimationStyle")
    ELSE Theme(data)

THEME_HORMOZI ==
    [name |-> "Hormozi", font_family |-> "Montserrat", font_size |-> 80,
     font_weight |-> 800, text_color |-> "#FFFFFF", highlight_color |-> "#FFFF00",
     outline_color |-> "#000000", outline_width |-> 4, shadow_offset |-> 3,
     position_y |-> 70, animation_style |-> "karaoke", words_per_line |-> 3,
     uppercase |-> TRUE, is_default |-> TRUE] @@ ThemeDefaults

THEME_BEAST ==
    [name |-> "Beast", font_family |-> "Impact", font_size |-> 90,
     font_weight |-> 700, text_color |-> "#FFFFFF", highlight_color |-> "#FF0000",
     outline_color |-> "#000000", outline_width |-> 6, shadow_offset |-> 4,
     position_y |-> 80, animation_style |-> "pop", words_per_line |-> 2,
     uppercase |-> TRUE, is_default |-> TRUE] @@ ThemeDefaults

THEME_CLEAN ==
    [name |-> "Clean", font_family |-> "Inter", font_size |-> 60,
     font_weight |-> 600, text_color |-> "#FFFFFF", highlight_color |-> "#00BFFF",
     outline_color |-> "#000000", outline_width |-> 2, shadow_offset |-> 1,
     position_y |-> 85, animation_style |-> "none", words_per_line |-> 5,
     max_chars_per_line |-> 40, is_default |-> TRUE] @@ ThemeDefaults

THEME_NEON ==
    [name |-> "Neon", font_family |-> "Poppins", font_size |-> 70,
     font_weight |-> 700, text_color |-> "#00FF00", highlight_color |-> "#FF00FF",
     outline_color |-> "#000000", outline_width |-> 3, shadow_blur |-> 10,
     position_y |-> 75, animation_style |-> "glow", words_per_line |-> 3,
     is_default |-> TRUE] @@ ThemeDefaults

THEME_MINIMAL ==
    [name |-> "Minimal", font_family |-> "Helvetica", font_size |-> 50,
     font_weight |-> 400, text_color |-> "#FFFFFF", highlight_color |-> "#FFFFFF",
     outline_color |-> "#000000", outline_width |-> 1, shadow_offset |-> 0,
     position_y |-> 90, animation_style |-> "none", words_per_line |-> 6,
     max_chars_per_line |-> 50, is_default |-> TRUE] @@ ThemeDefaults

THEME_BOLD ==
    [name |-> "Bold", font_family |-> "Arial Black", font_size |-> 85,
     font_weight |-> 900, text_color |-> "#FFFFFF", highlight_color |-> "#FFA500",
     outline_color |-> "#000000", outline_width |-> 5, shadow_offset |-> 4,
     position_y |-> 70, animation_style |-> "bounce", words_per_line |-> 2,
     uppercase |-> TRUE, is_default |-> TRUE] @@ ThemeDefaults

THEME_GRADIENT ==
    [name |-> "Gradient", font_family |-> "Montserrat", font_size |-> 75,
     font_weight |-> 700, text_color |-> "#FF6B6B", highlight_color |-> "#4ECDC4",
     outline_color |-> "#2C3E50", outline_width |-> 3, shadow_offset |-> 2,
     position_y |-> 72, animation_style |-> "wave", words_per_line |-> 3,
     is_default |-> TRUE] @@ ThemeDefaults

THEME_SARA ==
    [name |-> "Sara", font_family |-> "Poppins", font_size |-> 65,
     font_weight |-> 600, text_color |-> "#FFFFFF", highlight_color |-> "#FF69B4",
     outline_color |-> "#000000", outline_width |-> 3, shadow_offset |-> 2,
     position_y |-> 75, animation_style |-> "karaoke", words_per_line |-> 4,
     is_default |-> TRUE] @@ ThemeDefaults

\* The catalog as loaded: key -> Theme
DEFAULT_THEMES ==
    [hormozi |-> THEME_HORMOZI, beast |-> THEME_BEAST, clean |-> THEME_CLEAN,
     neon |-> THEME_NEON, minimal |-> THEME_MINIMAL, bold |-> THEME_BOLD,
     gradient |-> THEME_GRADIENT, sara |-> THEME_SARA]

\* str(list(DEFAULT_THEMES.keys()))
ThemeKeysRepr ==
    "['hormozi', 'beast', 'clean', 'neon', 'minimal', 'bold', 'gradient', 'sara']"

\* A variant of get_theme that looks the name up as given.
get_theme_exact(themes, name) ==
    IF name \in DOMAIN themes
    THEN Ok(name)
    ELSE Raise("ValueError",
               "Unknown theme: " \o name \o ". Available: " \o ThemeKeysRepr)

\* get_theme(name) against the catalog `themes`: the key of the Theme object
\* it returns (the object itself is themes[key], shared with the catalog)
get_theme(themes, name) ==
    With(lower(name), LAMBDA name_lower :
        IF name_lower \in DOMAIN themes
        THEN Ok(name_lower)
        ELSE Raise("ValueError",
                   "Unknown theme: " \o name \o ". Available: " \o ThemeKeysRepr))

-----------------------------------------------------------------------------
(* animations.py: the style functions and their registry.  Each takes the  *)
(* words of one line and a Theme and returns the line's text fragment.     *)

\* escape_ass_text, then .upper() when the theme asks for it
display_text(word, theme) ==
    With(escape_ass_text(word.text), LAMBDA text :
        IF theme.uppercase THEN upper(text) ELSE text)

no_animation(words, theme) ==
    With(Join(" ", [i \in DOMAIN words |-> escape_ass_text(words[i].text)]), LAMBDA text :
        Ok(IF theme.uppercase THEN upper(text) ELSE text))

karaoke_animation(words, theme) ==
    With(hex_to_ass_color(theme.highlight_color), LAMBDA highlight_color :
        IF IsError(highlight_color) THEN highlight_color
        ELSE Ok(Join(" ", [i \in DOMAIN words |->
                              "{\\kf" \o IntStr(duration_cs(words[i])) \o "}"
                              \o display_text(words[i], theme)])))

bounce_animation(words, theme) ==
    LET part(i) ==
            LET delay == (i - 1) * 50
                bounce_duration == 200
            IN  "{\\fscx80\\fscy80"
                \o "\\t(" \o IntStr(delay) \o "," \o IntStr(delay + bounce_duration)
                \o ",\\fscx110\\fscy110)"
                \o "\\t(" \o IntStr(delay + bounce_duration) \o ","
                \o IntStr(delay + bounce_duration + 100) \o ",\\fscx100\\fscy100)}"
                \o display_text(words[i], theme)
    IN  Ok(Join(" ", [i \in DOMAIN words |-> part(i)]))

\* A variant of relative_start_ms that counts from the start of the video.
relative_start_ms_absolute(word, line_start_time) ==
    Trunc(word.start * 1000, SEC)

\* int((word.start - line_start) * 1000)
relative_start_ms(word, line_start_time) ==
    Trunc((word.start - line_start_time) * 1000, SEC)

pop_sequential(words, theme) ==
    LET line_start_time == IF words # <<>> THEN words[1].start ELSE 0
        pop_up == 100
        settle == 80
        part(i) ==
            With(relative_start_ms(words[i], line_start_time), LAMBDA r :
                "{\\fscx0\\fscy0"
                \o "\\t(0," \o IntStr(r) \o ",\\fscx0\\fscy0)"
                \o "\\t(" \o IntStr(r) \o "," \o IntStr(r + pop_up) \o ",\\fscx115\\fscy115)"
                \o "\\t(" \o IntStr(r + pop_up) \o "," \o IntStr(r + pop_up + settle)
                \o ",\\fscx100\\fscy100)}"
                \o display_text(words[i], theme))
    IN  Ok(Join(" ", [i \in DOMAIN words |-> part(i)]))

glow_animation(words, theme) ==
    With(hex_to_ass_color(theme.highlight_color), LAMBDA highlight_color :
    With(hex_to_ass_color(theme.text_color), LAMBDA text_color :
        LET part(i) ==
                LET pulse_in == 150
                    pulse_out == 150
                    delay == (i - 1) * 100
                IN  "{\\blur0\\bord" \o IntStr(theme.outline_width)
                    \o "\\t(" \o IntStr(delay) \o "," \o IntStr(delay + pulse_in)
                    \o ",\\blur3\\bord" \o IntStr(theme.outline_width + 2)
                    \o "\\c" \o highlight_color.value \o ")"
                    \o "\\t(" \o IntStr(delay + pulse_in) \o ","
                    \o IntStr(delay + pulse_in + pulse_out)
                    \o ",\\blur0\\bord" \o IntStr(theme.outline_width)
                    \o "\\c" \o text_color.value \o ")}"
                    \o display_text(words[i], theme)
        IN  IF IsError(highlight_color) THEN highlight_color
            ELSE IF IsError(text_color) THEN text_color
            ELSE Ok(Join(" ", [i \in DOMAIN words |-> part(i)]))))

wave_animation(words, theme) ==
    LET part(i) ==
            LET wave_offset == (i - 1) * 100
                wave_up == 200
                wave_down == 200
            IN  "{\\fscy100"
                \o "\\t(" \o IntStr(wave_offset) \o "," \o IntStr(wave_offset + wave_up)
                \o ",\\fscy110)"
                \o "\\t(" \o IntStr(wave_offset + wave_up) \o ","
                \o IntStr(wave_offset + wave_up + wave_down) \o ",\\fscy100)}"
                \o display_text(words[i], theme)
    IN  Ok(Join(" ", [i \in DOMAIN words |-> part(i)]))

typewriter_animation(words, theme) ==
    LET line_start_time == IF words # <<>> THEN words[1].start ELSE 0
        fade_duration == 50
        part(i) ==
            With(relative_start_ms(words[i], line_start_time), LAMBDA r :
                "{\\alpha&HFF"
                \o "\\t(0," \o IntStr(r) \o ",\\alpha&HFF)"
                \o "\\t(" \o IntStr(r) \o "," \o IntStr(r + fade_duration) \o ",\\alpha&H00)}"
                \o display_text(words[i], theme))
    IN  Ok(Join(" ", [i \in DOMAIN words |-> part(i)]))

\* The registry: style name -> the name of its style function
ANIMATIONS ==
    [none |-> "no_animation", karaoke |-> "karaoke_animation",
     bounce |-> "bounce_animation", pop |-> "pop_sequential",
     glow |-> "glow_animation", wave |-> "wave_animation",
     typewriter |-> "typewriter_animation"]

\* str(list(ANIMATIONS.keys()))
AnimationKeysRepr ==
    "['none', 'karaoke', 'bounce', 'pop', 'glow', 'wave', 'typewriter']"

get_animation(style) ==
    With(lower(style), LAMBDA style_lower :
        IF style_lower \in DOMAIN ANIMATIONS
        THEN Ok(ANIMATIONS[style_lower])
        ELSE Raise("ValueError", "Unknown animation style: " \o style
                                 \o ". Available: " \o AnimationKeysRepr))

\* The call animation_func(words, theme) of a function got from the registry
call_animation(animation_func, words, theme) ==
    CASE animation_func = "no_animation" -> no_animation(words, theme)
      [] animation_func = "karaoke_animation" -> karaoke_animation(words, theme)
      [] animation_func = "bounce_animation" -> bounce_animation(words, theme)
      [] animation_func = "pop_sequential" -> pop_sequential(words, theme)
      [] animation_func = "glow_animation" -> glow_animation(words, theme)
      [] animation_func = "wave_animation" -> wave_animation(words, theme)
      [] animation_func = "typewriter_animation" -> typewriter_animation(words, theme)

-----------------------------------------------------------------------------
(* ass_builder.py: ASSBuilder and create_ass_from_lines.  A builder is     *)
(* [width, height, title, styles, dialogues]; a style row is the sequence  *)
(* of its 23 values and a dialogue row the record of its 10 fields, in the *)
(* order of the section's Format line.                                     *)

ASSBuilder(width, height) ==
    [width |-> width, height |-> height, title |-> "CaptionMagic",
     styles |-> <<>>, dialogues |-> <<>>]

\* The fields of [Script Info] that build_header fills in
build_header(builder) ==
    [Title |-> builder.title, ScriptType |-> "v4.00+", WrapStyle |-> "0",
     ScaledBorderAndShadow |-> "yes", YCbCrMatrix |-> "TV.601",
     PlayResX |-> builder.width, PlayResY |-> builder.height]

build_style(builder, theme, style_name) ==
    With(hex_to_ass_color(theme.text_color), LAMBDA primary_color :
    With(hex_to_ass_color(theme.highlight_color), LAMBDA secondary_color :
    With(hex_to_ass_color(theme.outline_color), LAMBDA outline_color :
    With(hex_to_ass_color(theme.shadow_color), LAMBDA shadow_color :
        LET bold == IF calculate_font_bold(theme.font_weight) THEN -1 ELSE 0
            alignment == alignment_to_ass(theme.alignment, theme.position_y)
            margin_v == calculate_margin_v(theme.position_y, builder.height)
        IN  IF IsError(primary_color) THEN primary_color
            ELSE IF IsError(secondary_color) THEN secondary_color
            ELSE IF IsError(outline_color) THEN outline_color
            ELSE IF IsError(shadow_color) THEN shadow_color
            ELSE Ok(<<style_name, theme.font_family, IntStr(theme.font_size),
                      primary_color.value, secondary_color.value,
                      outline_color.value, shadow_color.value,
                      IntStr(bold), "0", "0", "0",
                      "100", "100", IntStr(theme.letter_spacing), "0",
                      "1", IntStr(theme.outline_width), IntStr(theme.shadow_offset),
                      IntStr(alignment), "20", "20", IntStr(margin_v), "1">>)))))

\* builder after add_style(theme, style_name), or the exception it raises
add_style(builder, theme, style_name) ==
    With(build_style(builder, theme, style_name), LAMBDA style_line :
        IF IsError(style_line) THEN style_line
        ELSE Ok([builder EXCEPT !.styles = Append(@, style_line.value)]))

build_dialogue_line(text, start, end, style) ==
    [Layer |-> "0", Start |-> seconds_to_ass_time(start),
     End |-> seconds_to_ass_time(end), Style |-> style, Name |-> "",
     MarginL |-> "0", MarginR |-> "0", MarginV |-> "0", Effect |-> "",
     Text |-> text]

\* A variant of add_dialogue that puts the new row first.
add_dialogue_first(builder, text, start, end, style) ==
    [builder EXCEPT !.dialogues = <<build_dialogue_line(text, start, end, style)>> \o @]

add_dialogue(builder, text, start, end, style) ==
    [builder EXCEPT !.dialogues = Append(@, build_dialogue_line(text, start, end, style))]

\* The section [V4+ Styles]: the style rows joined in their order
build_styles_section(builder) == [section |-> "[V4+ Styles]", rows |-> builder.styles]

\* The section [Events]: the dialogue rows joined in their order
build_events_section(builder) == [section |-> "[Events]", rows |-> builder.dialogues]

\* A variant of build_parts with the events before the styles.
build_parts_events_first(builder) ==
    <<build_header(builder), build_events_section(builder), build_styles_section(builder)>>

\* The list `parts` of build: the three sections in the order they are joined
build_parts(builder) ==
    <<build_header(builder), build_styles_section(builder), build_events_section(builder)>>

\* The document: the fields of [Script Info], the style rows and the
\* dialogue rows of the joined parts
build(builder) ==
    [header |-> build_parts(builder)[1],
     styles |-> build_parts(builder)[2].rows,
     events |-> build_parts(builder)[3].rows]

\* The loop of create_ass_from_lines over the lines
RECURSIVE add_lines(_, _, _, _)
add_lines(builder, lines, animation_func, theme) ==
    IF lines = <<>> THEN Ok(builder)
    ELSE With(Head(lines), LAMBDA line :
         With(call_animation(animation_func, line.words, theme), LAMBDA animated_text :
             IF IsError(animated_text) THEN animated_text
             ELSE add_lines(add_dialogue(builder, animated_text.value,
                                         line_start(line), line_end(line), "Default"),
                            Tail(lines), animation_func, theme)))

create_ass_from_lines(lines, theme, video_width, video_height) ==
    With(add_style(ASSBuilder(video_width, video_height), theme, "Default"), LAMBDA styled :
    With(get_animation(theme.animation_style), LAMBDA animation_func :
        IF IsError(styled) THEN styled
        ELSE IF IsError(animation_func) THEN animation_func
        ELSE With(add_lines(styled.value, lines, animation_func.value, theme), LAMBDA filled :
                 IF IsError(filled) THEN filled ELSE Ok(build(filled.value)))))

-----------------------------------------------------------------------------
(* generator.py: the facade.  A theme argument is [type |-> "str", name],  *)
(* [type |-> "Theme", theme] or [type |-> "dict", data]; a word argument   *)
(* is a dict, or a Word given as the dict of its four fields; a config     *)
(* argument is None or Some(config).                                       *)

\* 0.1 s, the default of GeneratorConfig.add_padding
DefaultPadding == SEC \div 10

GeneratorConfig(video_width, video_height) ==
    [video_width |-> video_width, video_height |-> video_height,
     words_per_line |-> None, max_chars_per_line |-> None,
     animation_style |-> None, position_y |-> None,
     add_padding |-> DefaultPadding]

_resolve_theme(themes, theme) ==
    IF theme.type = "Theme" THEN Ok(theme.theme)
    ELSE IF theme.type = "str"
    THEN With(get_theme(themes, theme.name), LAMBDA got :
             IF IsError(got) THEN got ELSE Ok(themes[got.value]))
    ELSE IF theme.type = "dict" THEN from_dict(theme.data)
    ELSE Raise("TypeError", "Invalid theme type: " \o theme.type)

\* The first of 'text', 'start', 'end' that the dict lacks, or None
missing_key(w) ==
    IF "text" \notin DOMAIN w THEN Some("text")
    ELSE IF "start" \notin DOMAIN w THEN Some("start")
    ELSE IF "end" \notin DOMAIN w THEN Some("end")
    ELSE None

normalize_word(w) ==
    Word(w["text"], w["start"], w["end"],
         IF "confidence" \in DOMAIN w THEN w["confidence"] ELSE 1)

_normalize_words(words) ==
    IF \E i \in DOMAIN words : missing_key(words[i]) # None
    THEN LET i == CHOOSE k \in DOMAIN words :
                      /\ missing_key(words[k]) # None
                      /\ \A j \in 1..(k - 1) : missing_key(words[j]) = None
         IN  Raise("KeyError", missing_key(words[i])[1])
    ELSE Ok([i \in DOMAIN words |-> normalize_word(words[i])])

\* copy.deepcopy(theme), then the overrides the config sets
_apply_config_overrides(theme, config) ==
    LET t1 == IF config.words_per_line # None
              THEN [theme EXCEPT !.words_per_line = config.words_per_line[1]]
              ELSE theme
        t2 == IF config.max_chars_per_line # None
              THEN [t1 EXCEPT !.max_chars_per_line = config.max_chars_per_line[1]]
              ELSE t1
        t3 == IF config.animation_style # None
              THEN [t2 EXCEPT !.animation_style = config.animation_style[1]]
              ELSE t2
    IN  IF config.position_y # None
        THEN [t3 EXCEPT !.position_y = config.position_y[1]]
        ELSE t3

Max(a, b) == IF a >= b THEN a ELSE b

\* The new Word that _add_line_padding makes of word j of a line of n words
pad_word(word, j, n, padding) ==
    LET new_word == Word(word.text,
                         IF j = 1 THEN word.start - padding ELSE word.start,
                         IF j = n THEN word.end + padding ELSE word.end,
                         word.confidence)
    IN  [new_word EXCEPT !.start = Max(0, new_word.start)]

_add_line_padding(lines, padding) ==
    [i \in DOMAIN lines |->
        CaptionLine([j \in DOMAIN lines[i].words |->
                        pad_word(lines[i].words[j], j, Len(lines[i].words), padding)])]

\* generate_ass with the values of its pipeline: [result, theme, word_objects,
\* lines, padded]; a stage the call did not reach is None
generate_ass_stages(themes, words, theme, video_width, video_height, config) ==
    LET cfg == IF config = None
               THEN GeneratorConfig(video_width, video_height)
               ELSE config[1]
        unreached == [theme |-> None, word_objects |-> None, lines |-> None,
                      padded |-> None]
    IN  With(_resolve_theme(themes, theme), LAMBDA resolved :
        IF IsError(resolved) THEN [result |-> resolved] @@ unreached
        ELSE
        With(_apply_config_overrides(resolved.value, cfg), LAMBDA resolved_theme :
        With(_normalize_words(words), LAMBDA word_objects :
        IF IsError(word_objects)
        THEN [result |-> word_objects, theme |-> Some(resolved_theme)] @@ unreached
        ELSE
        With(group_words_into_lines(word_objects.value, resolved_theme.words_per_line,
                                    resolved_theme.max_chars_per_line), LAMBDA lines :
        With(IF cfg.add_padding > 0 THEN _add_line_padding(lines, cfg.add_padding)
             ELSE lines, LAMBDA padded :
            [result |-> create_ass_from_lines(padded, resolved_theme,
                                              cfg.video_width, cfg.video_height),
             theme |-> Some(resolved_theme),
             word_objects |-> Some(word_objects.value),
             lines |-> Some(lines),
             padded |-> Some(padded)])))))

generate_ass(themes, words, theme, video_width, video_height, config) ==
    generate_ass_stages(themes, words, theme, video_width, video_height, config).result

\* sample_text.split(): the maximal runs of non-space characters
RECURSIVE split_chars(_, _)
split_chars(cs, current) ==
    IF cs = <<>> THEN (IF current = "" THEN <<>> ELSE <<current>>)
    ELSE IF Head(cs) = " "
    THEN (IF current = "" THEN <<>> ELSE <<current>>) \o split_chars(Tail(cs), "")
    ELSE split_chars(Tail(cs), current \o Head(cs))

split(text) == split_chars(Chars(text), "")

\* The words preview_theme makes of the sample text: even timing from 0
preview_words(sample_text, total) ==
    LET words_text == split(sample_text)
        word_duration == total \div Len(words_text)
    IN  [i \in DOMAIN words_text |->
            [text |-> words_text[i],
             start |-> (i - 1) * word_duration,
             end |-> (i - 1) * word_duration + word_duration]]

preview_theme(themes, theme, sample_text, total, video_width, video_height) ==
    IF split(sample_text) = <<>>
    THEN Raise("ZeroDivisionError", "float division by zero")
    ELSE generate_ass(themes, preview_words(sample_text, total), theme,
                      video_width, video_height, None)

-----------------------------------------------------------------------------
(* generator.py: validation. *)

\* 0.1 s, the overlap validate_words allows
OverlapTolerance == SEC \div 10

\* The errors of word i (0-based in the messages) given the previous end
word_errors(word, i, prev_end) ==
    LET n == IntStr(i - 1)
        missing(field) == IF field \notin DOMAIN word
                          THEN <<"Word " \o n \o ": missing required field '" \o field \o "'">>
                          ELSE <<>>
        timed == "start" \in DOMAIN word /\ "end" \in DOMAIN word
    IN  missing("text") \o missing("start") \o missing("end")
        \o (IF timed /\ word["start"] < 0
            THEN <<"Word " \o n \o ": start time is negative">> ELSE <<>>)
        \o (IF timed /\ word["end"] < word["start"]
            THEN <<"Word " \o n \o ": end time before start time">> ELSE <<>>)
        \o (IF timed /\ word["start"] < prev_end - OverlapTolerance
            THEN <<"Word " \o n \o ": overlaps with previous word">> ELSE <<>>)

RECURSIVE validate_loop(_, _, _)
validate_loop(words, i, prev_end) ==
    IF i > Len(words) THEN <<>>
    ELSE word_errors(words[i], i, prev_end)
         \o validate_loop(words, i + 1,
                          IF "start" \in DOMAIN words[i] /\ "end" \in DOMAIN words[i]
                          THEN words[i]["end"] ELSE prev_end)

\* A variant of validate_words that returns after the first issue.
validate_words_first(words) ==
    IF words = <<>> THEN <<"Word list is empty">>
    ELSE SubSeq(validate_loop(words, 1, 0), 1, 1)

validate_words(words) ==
    IF words = <<>> THEN <<"Word list is empty">>
    ELSE validate_loop(words, 1, 0)

validate_theme(theme) ==
    LET color(field) ==
            IF field \in DOMAIN theme
               /\ (~(Len(theme[field]) > 0 /\ SubSeq(theme[field], 1, 1) = "#")
                   \/ Len(theme[field]) \notin {4, 7})
            THEN <<"Invalid color format for " \o field \o ": " \o theme[field]>>
            ELSE <<>>
    IN  (IF "name" \notin DOMAIN theme THEN <<"Theme must have a name">> ELSE <<>>)
        \o color("text_color") \o color("highlight_color")
        \o color("outline_color") \o color("shadow_color")
        \o (IF "font_size" \in DOMAIN theme
               /\ ~(10 <= theme["font_size"] /\ theme["font_size"] <= 200)
            THEN <<"font_size should be between 10 and 200">> ELSE <<>>)
        \o (IF "position_y" \in DOMAIN theme
               /\ ~(0 <= theme["position_y"] /\ theme["position_y"] <= 100)
            THEN <<"position_y should be between 0 and 100">> ELSE <<>>)
        \o (IF "words_per_line" \in DOMAIN theme
               /\ ~(1 <= theme["words_per_line"] /\ theme["words_per_line"] <= 10)
            THEN <<"words_per_line should be between 1 and 10">> ELSE <<>>)

-----------------------------------------------------------------------------
(* ass_builder.py: create_simple_ass.  It works on the Theme object that   *)
(* get_theme returns, which is the catalog's own: its overrides are writes *)
(* to the catalog.  The result is [themes, result]: the catalog after the  *)
(* call and what the call returned or raised.                              *)

\* `if x:` for an int-or-None argument
Truthy(x) == x # None /\ x[1] # 0

create_simple_ass(themes, words, theme_name, video_width, video_height, words_per_line, max_chars_per_line) ==
    With(get_theme(themes, theme_name), LAMBDA got :
    IF IsError(got) THEN [themes |-> themes, result |-> got]
    ELSE
    With(IF Truthy(words_per_line)
         THEN [themes EXCEPT ![got.value].words_per_line = words_per_line[1]]
         ELSE themes, LAMBDA themes1 :
    With(IF Truthy(max_chars_per_line)
         THEN [themes1 EXCEPT ![got.value].max_chars_per_line = max_chars_per_line[1]]
         ELSE themes1, LAMBDA themes2 :
    With(_normalize_words(words), LAMBDA word_objects :
    IF IsError(word_objects) THEN [themes |-> themes2, result |-> word_objects]
    ELSE
    With(group_words_into_lines(word_objects.value,
                                themes2[got.value].words_per_line,
                                themes2[got.value].max_chars_per_line), LAMBDA lines :
        [themes |-> themes2,
         result |-> create_ass_from_lines(lines, themes2[got.value],
                                          video_width, video_height)])))))

-----------------------------------------------------------------------------
(* The state before any call. *)

Threads == {1, 2}

\* The catalog as loaded, no call made, no thread started.
Loaded ==
    /\ catalog = DEFAULT_THEMES
    /\ stages = <<>>
    /\ history = <<>>
    /\ pc = [t \in Threads |-> "idle"]
    /\ frame = [t \in Threads |-> <<>>]

-----------------------------------------------------------------------------
(* The segmenter alone: one call of group_words_into_lines on each word    *)
(* list of up to MaxWords words over texts of 1, 2 and 5 characters, with  *)
(* each words_per_line in 0..MaxWpl and max_chars_per_line in 0..MaxChars. *)

SegTexts == {"a", "bb", "ddddd"}

\* Word i of a list starts at i - 1 tenths of a second and lasts a tenth.
SegWordLists ==
    UNION {{[i \in 1..n |-> Word(texts[i], (i - 1) * (SEC \div 10), i * (SEC \div 10), 1)] :
              texts \in [1..n -> SegTexts]} : n \in 0..MaxWords}

\* The eight words of test_word_grouping
TestWords ==
    <<Word("Hello", 0, SEC \div 2, 1), Word("world", SEC \div 2, SEC, 1),
      Word("this", SEC, (13 * SEC) \div 10, 1),
      Word("is", (13 * SEC) \div 10, (15 * SEC) \div 10, 1),
      Word("a", (15 * SEC) \div 10, (16 * SEC) \div 10, 1),
      Word("test", (16 * SEC) \div 10, 2 * SEC, 1),
      Word("of", 2 * SEC, (22 * SEC) \div 10, 1),
      Word("captions", (22 * SEC) \div 10, 3 * SEC, 1)>>

InitSegment ==
    /\ Loaded
    /\ op = "call"
    /\ args \in [words : SegWordLists, words_per_line : 0..MaxWpl,
                 max_chars_per_line : 0..MaxChars]
                \cup [words : {TestWords}, words_per_line : 1..MaxWpl,
                      max_chars_per_line : {30}]
    /\ result = <<>>

GroupWordsIntoLines ==
    /\ op = "call"
    /\ op' = "group_words_into_lines"
    /\ result' = group_words_into_lines(args.words, args.words_per_line,
                                        args.max_chars_per_line)
    /\ UNCHANGED <<catalog, args, stages, history, pc, frame>>

SpecSegment == InitSegment /\ [][GroupWordsIntoLines]_vars

Segmented == op = "group_words_into_lines"

RECURSIVE ConcatLines(_)
ConcatLines(lines) ==
    IF lines = <<>> THEN <<>> ELSE Head(lines).words \o ConcatLines(Tail(lines))

\* C1: the lines group_words_into_lines returns are all non-empty and their
\* concatenation, in order, is exactly the input word list; the empty list
\* gives no line.
C1_Partition ==
    Segmented =>
        /\ \A i \in DOMAIN result : result[i].words # <<>>
        /\ ConcatLines(result) = args.words
        /\ (args.words = <<>> => result = <<>>)

\* A segmentation into several lines, one of them of several words.
C1_Witness ==
    /\ Segmented
    /\ Len(result) >= 2
    /\ \E i \in DOMAIN result : Len(result[i].words) >= 2

\* C2: with words_per_line >= 1 and max_chars_per_line > 0 no line has more
\* than words_per_line words, and a line whose text is longer than
\* max_chars_per_line is a line of exactly one word.
C2_Limits ==
    (Segmented /\ args.words_per_line >= 1 /\ args.max_chars_per_line > 0) =>
        \A i \in DOMAIN result :
            /\ Len(result[i].words) <= args.words_per_line
            /\ (Len(line_text(result[i])) > args.max_chars_per_line
                    => Len(result[i].words) = 1)

\* A lone over-long word on its own line, next to a line filled to
\* words_per_line words.
C2_Witness ==
    /\ Segmented
    /\ args.words_per_line >= 2
    /\ args.max_chars_per_line > 0
    /\ \E i \in DOMAIN result : /\ Len(result[i].words) = 1
                                /\ Len(line_text(result[i])) > args.max_chars_per_line
    /\ \E i \in DOMAIN result : Len(result[i].words) = args.words_per_line

-----------------------------------------------------------------------------
(* The engine, one call at a time on the catalog as loaded: the initial    *)
(* state holds the call to make (args.fn and its arguments), the call's    *)
(* action makes it.                                                        *)

MaxGenWords == 3    \* longest generated word list given to generate_ass

E2EWords ==
    <<[text |-> "Hello", start |-> 0, end |-> (4 * SEC) \div 10],
      [text |-> "world", start |-> (4 * SEC) \div 10, end |-> (8 * SEC) \div 10]>>

GenTexts == <<"Hello", "world", "again", "and", "so">>

\* A word starts `gap` after the previous word's end (after 0 for the first)
\* and lasts `dur`: an overlap beyond the tolerance, none, or a silence; an
\* end before the start, or 0.4 s.
Gaps == {-(SEC \div 5), 0, SEC \div 10}

Durs == {-(SEC \div 10), (4 * SEC) \div 10}

RECURSIVE timed_words(_, _, _)
timed_words(shape, i, prev_end) ==
    IF i > Len(shape) THEN <<>>
    ELSE LET start == prev_end + shape[i][1]
             end == start + shape[i][2]
         IN  <<[text |-> GenTexts[i], start |-> start, end |-> end]>>
             \o timed_words(shape, i + 1, end)

GenWordLists ==
    UNION {{timed_words(shape, 1, 0) : shape \in [1..n -> Gaps \X Durs]} :
              n \in 0..MaxGenWords}

\* Dicts that lack a required key or carry a confidence, a text with
\* braces, an overlap of exactly the tolerance, and a word that starts and
\* ends before the start of the word before it, within the tolerance.
OddWordLists ==
    {<<[text |-> "Hello", start |-> 0]>>,
     <<[text |-> "Hello", start |-> 0, end |-> SEC \div 2, confidence |-> 0],
       [start |-> SEC \div 2, end |-> SEC]>>,
     <<[text |-> "a{b}", start |-> 0, end |-> SEC \div 2, confidence |-> 1]>>,
     <<[text |-> "Hello", start |-> 0, end |-> SEC \div 2],
       [text |-> "world", start |-> (4 * SEC) \div 10, end |-> SEC]>>,
     <<[text |-> "Hello", start |-> SEC \div 2, end |-> (52 * SEC) \div 100],
       [text |-> "world", start |-> (45 * SEC) \div 100, end |-> (48 * SEC) \div 100]>>}

\* Every casing of a lower-case name
RECURSIVE Casings(_)
Casings(name) ==
    IF name = "" THEN {""}
    ELSE {c \o rest : c \in {SubSeq(name, 1, 1), UpperChar(SubSeq(name, 1, 1))},
                      rest \in Casings(SubSeq(name, 2, Len(name)))}

CatalogNames == UNION {Casings(key) : key \in DOMAIN DEFAULT_THEMES}

UnknownNames == {"", "default", "hormoz", "hormozi ", "sara2", "Unknown"}

SevenStyles == {"none", "karaoke", "bounce", "pop", "glow", "wave", "typewriter"}

StyleNames == SevenStyles \cup {"Karaoke", "zoom", ""}

\* Theme mappings: one per style name, and ones with a malformed colour, a
\* field out of range, no name, an unknown key, an alignment.
ThemeDicts ==
    {[name |-> "Custom", animation_style |-> style] : style \in StyleNames}
    \cup {[name |-> "Custom", text_color |-> color] :
            color \in {"#FFF", "#00ff7F", "red", "FFFFFF", "#GGGGGG"}}
    \cup {[name |-> "Custom", font_size |-> size] : size \in {5, 10, 300}}
    \cup {[name |-> "Custom", words_per_line |-> n] : n \in {0, 1, 11}}
    \cup {[name |-> "Custom", position_y |-> 150],
          [font_size |-> 40],
          [name |-> "Custom", colour |-> "#FFFFFF"],
          [name |-> "Custom", alignment |-> "left", position_y |-> 10],
          [name |-> "Custom", alignment |-> "middle"]}

ThemeArgs ==
    {[type |-> "str", name |-> name] : name \in CatalogNames \cup UnknownNames}
    \cup {[type |-> "dict", data |-> data] : data \in ThemeDicts}
    \cup {[type |-> "Theme", theme |-> THEME_CLEAN],
          [type |-> "Theme", theme |-> [THEME_BEAST EXCEPT !.animation_style = "typewriter"]],
          [type |-> "int", number |-> 7]}

\* The themes the generated word lists are run with.
PipelineThemes ==
    {[type |-> "str", name |-> "hormozi"], [type |-> "str", name |-> "beast"]}

PipelineConfigs ==
    {None,
     Some([GeneratorConfig(1920, 1080) EXCEPT !.add_padding = 0]),
     Some([GeneratorConfig(1280, 720) EXCEPT !.words_per_line = Some(1),
                                             !.position_y = Some(20)])}

GenerateAssCalls ==
    [fn : {"generate_ass"}, words : GenWordLists \cup OddWordLists,
     theme : PipelineThemes, video_width : {1080}, video_height : {1920},
     config : PipelineConfigs]
    \cup [fn : {"generate_ass"}, words : {E2EWords}, theme : ThemeArgs,
          video_width : {1080}, video_height : {1920}, config : {None}]

Calls ==
    GenerateAssCalls
    \cup [fn : {"get_theme"}, name : CatalogNames \cup UnknownNames]
    \cup [fn : {"from_dict"}, data : ThemeDicts]
    \cup [fn : {"get_animation"}, style : StyleNames]
    \cup [fn : {"preview_theme"},
          theme : {[type |-> "str", name |-> "Neon"], [type |-> "Theme", theme |-> THEME_SARA]},
          sample_text : {"This is a sample caption", "one  two", ""},
          total : {3 * SEC}, video_width : {1920}, video_height : {1080}]
    \cup [fn : {"create_simple_ass"}, words : {E2EWords, <<>>},
          theme_name : {"hormozi", "Clean", "nope"},
          video_width : {1920}, video_height : {1080},
          words_per_line : {None, Some(0), Some(1)},
          max_chars_per_line : {None, Some(8)}]

Init ==
    /\ Loaded
    /\ op = "call"
    /\ args \in Calls
    /\ result = <<>>

Calling(fn) == op = "call" /\ args.fn = fn

\* What every call but create_simple_ass leaves alone
Returned == op' = args.fn /\ UNCHANGED <<catalog, args, history, pc, frame>>

GetTheme ==
    /\ Calling("get_theme")
    /\ result' = get_theme(catalog, args.name)
    /\ stages' = stages
    /\ Returned

FromDict ==
    /\ Calling("from_dict")
    /\ result' = from_dict(args.data)
    /\ stages' = stages
    /\ Returned

GetAnimation ==
    /\ Calling("get_animation")
    /\ result' = get_animation(args.style)
    /\ stages' = stages
    /\ Returned

GenerateAss ==
    /\ Calling("generate_ass")
    /\ \E run \in {generate_ass_stages(catalog, args.words, args.theme,
                                       args.video_width, args.video_height, args.config)} :
          /\ result' = run.result
          /\ stages' = [theme |-> run.theme, word_objects |-> run.word_objects,
                        lines |-> run.lines, padded |-> run.padded]
    /\ Returned

PreviewTheme ==
    /\ Calling("preview_theme")
    /\ result' = preview_theme(catalog, args.theme, args.sample_text, args.total,
                               args.video_width, args.video_height)
    /\ stages' = stages
    /\ Returned

CreateSimpleAss ==
    /\ Calling("create_simple_ass")
    /\ \E run \in {create_simple_ass(catalog, args.words, args.theme_name,
                                     args.video_width, args.video_height,
                                     args.words_per_line, args.max_chars_per_line)} :
          /\ result' = run.result
          /\ catalog' = run.themes
    /\ op' = args.fn
    /\ UNCHANGED <<args, stages, history, pc, frame>>

Next ==
    \/ GetTheme
    \/ FromDict
    \/ GetAnimation
    \/ GenerateAss
    \/ PreviewTheme
    \/ CreateSimpleAss

Spec == Init /\ [][Next]_vars

-----------------------------------------------------------------------------
(* Claims about one call of the facade. *)

Generated == op = "generate_ass"

\* The issues pre-flight validation finds in the input of a generate_ass call
PreflightIssues(call) ==
    validate_words(call.words)
    \o (IF call.theme.type = "dict" THEN validate_theme(call.theme.data) ELSE <<>>)

\* C6: generate_ass validates first: on an input that validate_words or
\* validate_theme rejects it raises (whatever the exception's type) and
\* returns no document.
C6_ValidatesFirst ==
    (Generated /\ PreflightIssues(args) # <<>>) => IsError(result)

IsEndToEndCall ==
    /\ Generated
    /\ args.words = E2EWords
    /\ args.theme = [type |-> "str", name |-> "hormozi"]
    /\ args.video_width = 1080
    /\ args.video_height = 1920
    /\ args.config = None

\* C7: generate_ass on Hello (0.0-0.4), world (0.4-0.8) with theme "hormozi"
\* at 1080x1920 and default options gives exactly one Dialogue row, from
\* 0:00:00.00 to 0:00:00.80, of style Default, whose text is the two
\* upper-cased words, each behind a \kf40 tag.
C7_EndToEnd ==
    IsEndToEndCall =>
        /\ IsOk(result)
        /\ Len(result.value.events) = 1
        /\ result.value.events[1].Start = "0:00:00.00"
        /\ result.value.events[1].End = "0:00:00.80"
        /\ result.value.events[1].Style = "Default"
        /\ result.value.events[1].Text = "{\\kf40}HELLO {\\kf40}WORLD"

\* name is key in some casing
IsCasingOf(name, key) ==
    /\ Len(name) = Len(key)
    /\ \A i \in 1..Len(key) :
          SubSeq(name, i, i) \in {SubSeq(key, i, i), UpperChar(SubSeq(key, i, i))}

UnknownThemeError(name) ==
    Raise("ValueError", "Unknown theme: " \o name \o ". Available: " \o ThemeKeysRepr)

\* C8: every casing of a catalog name resolves to that name's preset, in
\* get_theme and in generate_ass; any other name makes both raise an error
\* that names it, and no preset is used in its place.
C8_ThemeNames ==
    /\ op = "get_theme" =>
          IF \E key \in DOMAIN DEFAULT_THEMES : IsCasingOf(args.name, key)
          THEN \E key \in DOMAIN DEFAULT_THEMES :
                  IsCasingOf(args.name, key) /\ result = Ok(key)
          ELSE result = UnknownThemeError(args.name)
    /\ (Generated /\ args.theme.type = "str" /\ args.config = None) =>
          IF \E key \in DOMAIN DEFAULT_THEMES : IsCasingOf(args.theme.name, key)
          THEN \E key \in DOMAIN DEFAULT_THEMES :
                  /\ IsCasingOf(args.theme.name, key)
                  /\ stages.theme = Some(DEFAULT_THEMES[key])
                  /\ result # UnknownThemeError(args.theme.name)
          ELSE /\ result = UnknownThemeError(args.theme.name)
               /\ stages.theme = None

\* generate_ass given a catalog name in mixed case has used that preset.
C8_Witness ==
    /\ Generated
    /\ args.theme = [type |-> "str", name |-> "GradienT"]
    /\ stages.theme = Some(THEME_GRADIENT)
    /\ IsOk(result)

\* C9: Theme.from_dict accepts each of the 7 style names and get_animation
\* returns a style function for each; a name that is none of the 7 in any
\* casing is rejected by both with an error.
C9_SevenStyles ==
    /\ (op = "from_dict" /\ "animation_style" \in DOMAIN args.data) =>
          IF args.data.animation_style \in SevenStyles THEN IsOk(result)
          ELSE IF lower(args.data.animation_style) \notin SevenStyles THEN IsError(result)
          ELSE TRUE
    /\ op = "get_animation" =>
          IF args.style \in SevenStyles
          THEN IsOk(result) /\ result.value = ANIMATIONS[args.style]
          ELSE IF lower(args.style) \notin SevenStyles THEN IsError(result)
          ELSE TRUE

\* The padding amount of a generate_ass call
PaddingOf(call) ==
    IF call.config = None THEN DefaultPadding ELSE call.config[1].add_padding

\* C10: padding by p > 0 keeps the lines and their words and changes two
\* timings per line only: the first word's start becomes max(0, start - p)
\* and the last word's end becomes end + p; every other start and end, and
\* every text and confidence, is as before, and no start is below 0.
C10_Padding ==
    (Generated /\ stages.padded # None /\ PaddingOf(args) > 0) =>
        LET lines == stages.lines[1]
            padded == stages.padded[1]
            p == PaddingOf(args)
        IN  /\ Len(padded) = Len(lines)
            /\ \A i \in DOMAIN lines :
                  LET old == lines[i].words
                      new == padded[i].words
                  IN  /\ Len(new) = Len(old)
                      /\ \A j \in DOMAIN old :
                            /\ new[j].text = old[j].text
                            /\ new[j].confidence = old[j].confidence
                            /\ new[j].start = IF j = 1 THEN Max(0, old[j].start - p)
                                              ELSE old[j].start
                            /\ new[j].end = IF j = Len(old) THEN old[j].end + p
                                            ELSE old[j].end
                            /\ new[j].start >= 0

-----------------------------------------------------------------------------
(* A session: up to MaxCalls engine calls, one after another, on the       *)
(* catalog the calls before them left.  history is the calls made with     *)
(* what each returned.                                                     *)

MaxCalls == 3    \* calls in a session

OneWordPerLine == [GeneratorConfig(1080, 1920) EXCEPT !.words_per_line = Some(1)]

SessionCalls ==
    [fn : {"generate_ass"}, words : {E2EWords},
     theme : {[type |-> "str", name |-> "hormozi"], [type |-> "Theme", theme |-> THEME_CLEAN]},
     video_width : {1080}, video_height : {1920},
     config : {None, Some(OneWordPerLine)}]
    \cup [fn : {"get_theme"}, name : {"Hormozi"}]
    \cup [fn : {"preview_theme"}, theme : {[type |-> "str", name |-> "hormozi"]},
          sample_text : {"one two"}, total : {3 * SEC},
          video_width : {1080}, video_height : {1920}]
    \cup [fn : {"create_simple_ass"}, words : {E2EWords}, theme_name : {"hormozi"},
          video_width : {1080}, video_height : {1920},
          words_per_line : {None, Some(1)}, max_chars_per_line : {None, Some(8)}]

InitSession ==
    /\ Loaded
    /\ op = "load"
    /\ args = <<>>
    /\ result = <<>>

\* The call `call` is made and returns run.result, leaving the catalog run.themes
SessionCall(call, run) ==
    /\ Len(history) < MaxCalls
    /\ op' = call.fn
    /\ args' = call
    /\ result' = run.result
    /\ catalog' = run.themes
    /\ history' = Append(history, [call |-> call, result |-> run.result])
    /\ UNCHANGED <<stages, pc, frame>>

SessionGetTheme ==
    \E call \in SessionCalls :
        /\ call.fn = "get_theme"
        /\ SessionCall(call, [themes |-> catalog, result |-> get_theme(catalog, call.name)])

SessionGenerateAss ==
    \E call \in SessionCalls :
        /\ call.fn = "generate_ass"
        /\ SessionCall(call, [themes |-> catalog,
                              result |-> generate_ass(catalog, call.words, call.theme,
                                                      call.video_width, call.video_height,
                                                      call.config)])

SessionPreviewTheme ==
    \E call \in SessionCalls :
        /\ call.fn = "preview_theme"
        /\ SessionCall(call, [themes |-> catalog,
                              result |-> preview_theme(catalog, call.theme, call.sample_text,
                                                       call.total, call.video_width,
                                                       call.video_height)])

SessionCreateSimpleAss ==
    \E call \in SessionCalls :
        /\ call.fn = "create_simple_ass"
        /\ SessionCall(call, create_simple_ass(catalog, call.words, call.theme_name,
                                               call.video_width, call.video_height,
                                               call.words_per_line,
                                               call.max_chars_per_line))

NextSession ==
    \/ SessionGetTheme
    \/ SessionGenerateAss
    \/ SessionPreviewTheme
    \/ SessionCreateSimpleAss

SpecSession == InitSession /\ [][NextSession]_vars

\* C3: after any sequence of engine calls every field of each of the 8
\* presets of the catalog equals its value at load time.
C3_CatalogNeverMutated ==
    \A key \in DOMAIN DEFAULT_THEMES :
        \A field \in DOMAIN DEFAULT_THEMES[key] :
            catalog[key][field] = DEFAULT_THEMES[key][field]

\* C4: in any sequence of engine calls, two calls of generate_ass with
\* identical arguments return identical documents, whatever calls were made
\* before or between them.
C4_Deterministic ==
    \A i, j \in DOMAIN history :
        (history[i].call.fn = "generate_ass" /\ history[j].call = history[i].call)
            => history[j].result = history[i].result

-----------------------------------------------------------------------------
(* Threads: each of two threads makes one engine call, and the steps of    *)
(* the two calls interleave.  A step is one access to the catalog with the *)
(* local work around it.  pc[t] is the step thread t is at, frame[t] its   *)
(* locals: the call, the catalog's Theme it holds (ref, a key of the       *)
(* catalog), what it has read, and the result when done.                   *)

ThreadCalls ==
    [fn : {"generate_ass"}, words : {E2EWords},
     theme : {[type |-> "str", name |-> "hormozi"], [type |-> "Theme", theme |-> THEME_CLEAN]},
     video_width : {1080}, video_height : {1920}, config : {None}]
    \cup [fn : {"preview_theme"}, theme : {[type |-> "str", name |-> "hormozi"]},
          sample_text : {"one two"}, total : {3 * SEC},
          video_width : {1080}, video_height : {1920}]
    \cup [fn : {"create_simple_ass"}, words : {E2EWords}, theme_name : {"hormozi", "nope"},
          video_width : {1080}, video_height : {1920},
          words_per_line : {None, Some(1)}, max_chars_per_line : {None, Some(8)}]

InitThreads ==
    /\ Loaded
    /\ op = "load"
    /\ args = <<>>
    /\ result = <<>>

\* Thread t moves to step `to` with the locals `locals`
Goto(t, to, locals) ==
    /\ pc' = [pc EXCEPT ![t] = to]
    /\ frame' = [frame EXCEPT ![t] = locals]
    /\ UNCHANGED <<op, args, result, stages, history>>

\* Thread t's call ends with `res`
Return(t, res) == Goto(t, "done", [call |-> frame[t].call, result |-> res])

\* Thread t takes up a call.
Start(t) ==
    /\ pc[t] = "idle"
    /\ \E call \in ThreadCalls :
          Goto(t, IF call.fn = "create_simple_ass" THEN "get_theme" ELSE "resolve",
               [call |-> call])
    /\ UNCHANGED catalog

\* The words of thread t's generate_ass: the call's, or preview_theme's
WordsOf(call) ==
    IF call.fn = "preview_theme" THEN preview_words(call.sample_text, call.total)
    ELSE call.words

\* generate_ass, _resolve_theme: a name gives the catalog's own Theme.
GenResolve(t) ==
    /\ pc[t] = "resolve"
    /\ LET call == frame[t].call
           resolved == _resolve_theme(catalog, call.theme)
       IN  IF call.fn = "preview_theme" /\ split(call.sample_text) = <<>>
           THEN Return(t, Raise("ZeroDivisionError", "float division by zero"))
           ELSE IF IsError(resolved) THEN Return(t, resolved)
           ELSE IF call.theme.type = "str"
           THEN Goto(t, "copy_words_per_line",
                     [call |-> call, ref |-> get_theme(catalog, call.theme.name).value])
           ELSE Goto(t, "run", [call |-> call, theme |-> resolved.value])
    /\ UNCHANGED catalog

\* copy.deepcopy(theme) reads the fields in their order: those up to
\* words_per_line ...
GenCopyWordsPerLine(t) ==
    /\ pc[t] = "copy_words_per_line"
    /\ Goto(t, "copy_max_chars_per_line",
            [call |-> frame[t].call, ref |-> frame[t].ref,
             words_per_line |-> catalog[frame[t].ref].words_per_line])
    /\ UNCHANGED catalog

\* ... and those from max_chars_per_line on.
GenCopyMaxCharsPerLine(t) ==
    /\ pc[t] = "copy_max_chars_per_line"
    /\ Goto(t, "run",
            [call |-> frame[t].call,
             theme |-> [catalog[frame[t].ref] EXCEPT
                           !.words_per_line = frame[t].words_per_line]])
    /\ UNCHANGED catalog

\* The rest of generate_ass works on the copy.
GenRun(t) ==
    /\ pc[t] = "run"
    /\ LET call == frame[t].call
       IN  Return(t, generate_ass(catalog, WordsOf(call),
                                  [type |-> "Theme", theme |-> frame[t].theme],
                                  call.video_width, call.video_height,
                                  IF call.fn = "generate_ass" THEN call.config ELSE None))
    /\ UNCHANGED catalog

\* create_simple_ass, theme = get_theme(theme_name)
CsaGetTheme(t) ==
    /\ pc[t] = "get_theme"
    /\ LET got == get_theme(catalog, frame[t].call.theme_name)
       IN  IF IsError(got) THEN Return(t, got)
           ELSE Goto(t, "set_words_per_line", [call |-> frame[t].call, ref |-> got.value])
    /\ UNCHANGED catalog

\* if words_per_line: theme.words_per_line = words_per_line
CsaSetWordsPerLine(t) ==
    /\ pc[t] = "set_words_per_line"
    /\ LET words_per_line == frame[t].call.words_per_line
       IN  catalog' = IF Truthy(words_per_line)
                      THEN [catalog EXCEPT ![frame[t].ref].words_per_line = words_per_line[1]]
                      ELSE catalog
    /\ Goto(t, "set_max_chars_per_line", frame[t])

\* if max_chars_per_line: theme.max_chars_per_line = max_chars_per_line
CsaSetMaxCharsPerLine(t) ==
    /\ pc[t] = "set_max_chars_per_line"
    /\ LET max_chars_per_line == frame[t].call.max_chars_per_line
       IN  catalog' = IF Truthy(max_chars_per_line)
                      THEN [catalog EXCEPT ![frame[t].ref].max_chars_per_line =
                                               max_chars_per_line[1]]
                      ELSE catalog
    /\ Goto(t, "read_words_per_line", frame[t])

\* The Word objects, and the first argument of group_words_into_lines
CsaReadWordsPerLine(t) ==
    /\ pc[t] = "read_words_per_line"
    /\ LET word_objects == _normalize_words(frame[t].call.words)
       IN  IF IsError(word_objects) THEN Return(t, word_objects)
           ELSE Goto(t, "group",
                     [call |-> frame[t].call, ref |-> frame[t].ref,
                      word_objects |-> word_objects.value,
                      words_per_line |-> catalog[frame[t].ref].words_per_line])
    /\ UNCHANGED catalog

\* The second argument, and the grouping
CsaGroup(t) ==
    /\ pc[t] = "group"
    /\ Goto(t, "build",
            [call |-> frame[t].call, ref |-> frame[t].ref,
             lines |-> group_words_into_lines(frame[t].word_objects,
                                              frame[t].words_per_line,
                                              catalog[frame[t].ref].max_chars_per_line)])
    /\ UNCHANGED catalog

\* create_ass_from_lines(lines, theme, ...) on the catalog's Theme
CsaBuild(t) ==
    /\ pc[t] = "build"
    /\ Return(t, create_ass_from_lines(frame[t].lines, catalog[frame[t].ref],
                                       frame[t].call.video_width,
                                       frame[t].call.video_height))
    /\ UNCHANGED catalog

NextThreads ==
    \E t \in Threads :
        \/ Start(t)
        \/ GenResolve(t)
        \/ GenCopyWordsPerLine(t)
        \/ GenCopyMaxCharsPerLine(t)
        \/ GenRun(t)
        \/ CsaGetTheme(t)
        \/ CsaSetWordsPerLine(t)
        \/ CsaSetMaxCharsPerLine(t)
        \/ CsaReadWordsPerLine(t)
        \/ CsaGroup(t)
        \/ CsaBuild(t)

SpecThreads == InitThreads /\ [][NextThreads]_vars

\* What a call returns when it is the only call made on the catalog as loaded
Alone(call) ==
    IF call.fn = "generate_ass"
    THEN generate_ass(DEFAULT_THEMES, call.words, call.theme, call.video_width,
                      call.video_height, call.config)
    ELSE IF call.fn = "preview_theme"
    THEN preview_theme(DEFAULT_THEMES, call.theme, call.sample_text, call.total,
                       call.video_width, call.video_height)
    ELSE create_simple_ass(DEFAULT_THEMES, call.words, call.theme_name,
                           call.video_width, call.video_height, call.words_per_line,
                           call.max_chars_per_line).result

\* C5: in every interleaving of the steps of concurrent engine calls, each
\* call returns exactly what it returns when it runs alone on the catalog as
\* loaded.
C5_ThreadsIsolated ==
    \A t \in Threads : pc[t] = "done" => frame[t].result = Alone(frame[t].call)

-----------------------------------------------------------------------------
(* Pre-flight validation alone: one call of validate_words on each list of *)
(* up to MaxValWords word dicts, or of validate_theme on a theme mapping.  *)

MaxValWords == 3    \* longest word list given to validate_words

\* Starts before 0, at 0, and around the ends 400 and 500 of a previous
\* word: 0.2 s, 0.1 s (the tolerance) and 0.05 s before the end 500.
ValStarts == {-(SEC \div 5), 0, (3 * SEC) \div 10, (4 * SEC) \div 10, (45 * SEC) \div 100}

\* An end before the start, or 0.1 s after it
ValDurs == {-(SEC \div 10), SEC \div 10}

\* Word dicts with their three keys, and ones that lack a key
ValWordDicts ==
    {[text |-> "w", start |-> s, end |-> s + d] : s \in ValStarts, d \in ValDurs}
    \cup {[text |-> "w", start |-> 0],
          [start |-> (3 * SEC) \div 10, end |-> SEC \div 2],
          [text |-> "w"]}

ValWordLists == UNION {[1..n -> ValWordDicts] : n \in 0..MaxValWords}

\* Theme mappings: those of ThemeDicts, and ones with a numeric field out
\* of the range the documentation gives it
ValThemeDicts ==
    ThemeDicts
    \cup {[name |-> "Custom", position_x |-> 150],
          [name |-> "Custom", max_chars_per_line |-> 0],
          [name |-> "Custom", animation_speed |-> 0],
          [name |-> "Custom", outline_width |-> -1],
          [name |-> "Custom", text_color |-> "#12345"],
          [name |-> "Custom", text_color |-> "#FFFFFF", font_size |-> 80,
           position_y |-> 70, words_per_line |-> 3]}

InitValidate ==
    /\ Loaded
    /\ op = "call"
    /\ args \in [fn : {"validate_words"}, words : ValWordLists]
                \cup [fn : {"validate_theme"}, theme : ValThemeDicts]
    /\ result = <<>>

ValidateWords ==
    /\ Calling("validate_words")
    /\ result' = validate_words(args.words)
    /\ stages' = stages
    /\ Returned

ValidateTheme ==
    /\ Calling("validate_theme")
    /\ result' = validate_theme(args.theme)
    /\ stages' = stages
    /\ Returned

NextValidate == ValidateWords \/ ValidateTheme

SpecValidate == InitValidate /\ [][NextValidate]_vars

\* The word dict has its two times
HasTiming(w) == "start" \in DOMAIN w /\ "end" \in DOMAIN w

\* The issue texts of word i (1-based here, 0-based in the texts)
MissingIssue(i, field) ==
    "Word " \o ToString(i - 1) \o ": missing required field '" \o field \o "'"

NegativeIssue(i) == "Word " \o ToString(i - 1) \o ": start time is negative"

BackwardsIssue(i) == "Word " \o ToString(i - 1) \o ": end time before start time"

OverlapIssue(i) == "Word " \o ToString(i - 1) \o ": overlaps with previous word"

\* Word i starts more than 0.1 s before the end of the word before it
Overlaps(words, i) ==
    /\ i > 1
    /\ HasTiming(words[i]) /\ HasTiming(words[i - 1])
    /\ words[i]["start"] < words[i - 1]["end"] - SEC \div 10

\* The issues of the rules that word i violates: a rule on times is about a
\* word that has its times
RuleIssues(words, i) ==
    {MissingIssue(i, field) : field \in {"text", "start", "end"} \ DOMAIN words[i]}
    \cup (IF HasTiming(words[i]) /\ words[i]["start"] < 0 THEN {NegativeIssue(i)} ELSE {})
    \cup (IF HasTiming(words[i]) /\ words[i]["end"] < words[i]["start"]
          THEN {BackwardsIssue(i)} ELSE {})
    \cup (IF Overlaps(words, i) THEN {OverlapIssue(i)} ELSE {})

C12_OverlapTolerance ==
    (op = "validate_words" /\ \A k \in DOMAIN args.words : HasTiming(args.words[k])) =>
        \A i \in DOMAIN args.words :
            OverlapIssue(i) \in Range(result) <=> Overlaps(args.words, i)

IsHexColor(color) ==
    /\ Len(color) \in {4, 7}
    /\ SubSeq(color, 1, 1) = "#"
    /\ \A i \in 2..Len(color) : IsHexChar(SubSeq(color, i, i))

InRange(theme, field, lo, hi) ==
    field \in DOMAIN theme => (lo <= theme[field] /\ theme[field] <= hi)

AtLeast(theme, field, lo) == field \in DOMAIN theme => lo <= theme[field]

\* Every colour field the mapping has is a hex colour and every numeric
\* field it has is in its range
ThemeFieldsValid(theme) ==
    /\ \A field \in {"text_color", "highlight_color", "outline_color", "shadow_color"} :
          field \in DOMAIN theme => IsHexColor(theme[field])
    /\ InRange(theme, "font_size", 10, 200)
    /\ InRange(theme, "position_x", 0, 100)
    /\ InRange(theme, "position_y", 0, 100)
    /\ InRange(theme, "words_per_line", 1, 10)
    /\ AtLeast(theme, "max_chars_per_line", 1)
    /\ AtLeast(theme, "animation_speed", 1)
    /\ AtLeast(theme, "outline_width", 0)
    /\ AtLeast(theme, "shadow_offset", 0)
    /\ AtLeast(theme, "shadow_blur", 0)

\* C13: validate_theme reports an issue for a theme mapping with a colour
\* field that is not '#' and 3 or 6 hex digits or with a numeric field out
\* of its range: such a theme is never reported valid.
C13_ThemeValidation ==
    (op = "validate_theme" /\ ~ThemeFieldsValid(args.theme)) => result # <<>>

-----------------------------------------------------------------------------
(* The document of a generate_ass call against the lines and the theme it  *)
(* was built from (under Spec).                                            *)

\* generate_ass has returned a document
Built == Generated /\ IsOk(result) /\ stages.padded # None /\ stages.theme # None

\* The animated fragment of a line under a theme
Fragment(line, theme) ==
    call_animation(get_animation(theme.animation_style).value, line.words, theme).value

\* C14: the event table has one Dialogue row per CaptionLine given to the
\* builder, in line order; row i has layer 0, Start and End the document
\* times of the first word's start and the last word's end of line i, style
\* Default, empty Name and Effect, margins 0, and the line's animated
\* fragment as its last field.
C14_EventRows ==
    Built =>
        /\ Len(result.value.events) = Len(stages.padded[1])
        /\ \A i \in DOMAIN stages.padded[1] :
              result.value.events[i] =
                 [Layer |-> "0",
                  Start |-> seconds_to_ass_time(stages.padded[1][i].words[1].start),
                  End |-> seconds_to_ass_time(
                              stages.padded[1][i].words[Len(stages.padded[1][i].words)].end),
                  Style |-> "Default", Name |-> "",
                  MarginL |-> "0", MarginR |-> "0", MarginV |-> "0", Effect |-> "",
                  Text |-> Fragment(stages.padded[1][i], stages.theme[1])]

\* A document of two lines, the first of two words, with different Starts.
C14_Witness ==
    /\ Built
    /\ Len(stages.padded[1]) = 2
    /\ Len(stages.padded[1][1].words) = 2
    /\ Len(result.value.events) = 2
    /\ result.value.events[1].Start # result.value.events[2].Start

C16_Resolution ==
    Built =>
        /\ result.value.header.PlayResX = args.video_width
        /\ result.value.header.PlayResY = args.video_height
        /\ result.value.styles[1][22] =
              ToString(calculate_margin_v(stages.theme[1].position_y, args.video_height))

\* The position of the first "}" of text at or after i
RECURSIVE TagEnd(_, _)
TagEnd(text, i) ==
    IF i > Len(text) \/ SubSeq(text, i, i) = "}" THEN i ELSE TagEnd(text, i + 1)

\* The fill durations (centiseconds) of the \kf tags of a row's text from
\* position i on, in order
RECURSIVE KaraokeFills(_, _)
KaraokeFills(text, i) ==
    IF i + 4 > Len(text) THEN <<>>
    ELSE IF SubSeq(text, i, i + 3) = "{\\kf"
    THEN <<ParseInt(SubSeq(text, i + 4, TagEnd(text, i) - 1))>>
         \o KaraokeFills(text, TagEnd(text, i) + 1)
    ELSE KaraokeFills(text, i + 1)

RECURSIVE SumFirst(_, _)
SumFirst(fills, n) == IF n = 0 THEN 0 ELSE fills[n] + SumFirst(fills, n - 1)

\* C17: in every karaoke Dialogue row of generate_ass the fill of word j
\* begins at word j's own start: the fills of the words before it in the
\* line add up to word j's start minus the start of the line's row, with
\* silence gaps between words and with padding too (stated for the calls
\* whose words validate_words accepts).
C17_KaraokeAligned ==
    (Built /\ stages.theme[1].animation_style = "karaoke"
           /\ validate_words(args.words) = <<>>) =>
        \A i \in DOMAIN stages.padded[1] :
            \A j \in DOMAIN stages.padded[1][i].words :
                /\ Len(KaraokeFills(result.value.events[i].Text, 1))
                      = Len(stages.padded[1][i].words)
                /\ SumFirst(KaraokeFills(result.value.events[i].Text, 1), j - 1) * SEC
                      = (stages.padded[1][i].words[j].start
                         - stages.padded[1][i].words[1].start) * 100

-----------------------------------------------------------------------------
(* The conversions of utils.py alone: one call of hex_to_ass_color,        *)
(* seconds_to_ass_time or alignment_to_ass on each input of a bounded set. *)

MaxCentis == 130    \* the times 0.00, 0.01, ... up to MaxCentis / 100 s

\* Hex digits a colour is written with, of both cases
ColorDigits == {"0", "8", "F", "a", "c"}

\* '#RRGGBB' and '#RGB' colours, and texts that are neither
ColorInputs ==
    {"#" \o r1 \o r2 \o g1 \o g2 \o b1 \o b2 :
        r1 \in {"0", "F"}, r2 \in ColorDigits, g1 \in {"0", "F", "a"},
        g2 \in {"0", "F"}, b1 \in {"0", "F", "c"}, b2 \in {"0", "8", "F"}}
    \cup {"#" \o r \o g \o b : r \in ColorDigits, g \in ColorDigits, b \in ColorDigits}
    \cup {"FFFFFF", "red", "#GGGGGG", "#12345", ""}

\* Times >= 0: every centisecond up to MaxCentis, the times of the
\* documentation (1.5, 65.5, 3723.45), a time with milliseconds, and times
\* around the minute and the hour
TimeInputs ==
    {(c * SEC) \div 100 : c \in 0..MaxCentis}
    \cup {(15 * SEC) \div 10, (655 * SEC) \div 10, (372345 * SEC) \div 100,
          (1999 * SEC) \div 1000, (5999 * SEC) \div 100, 60 * SEC,
          (359999 * SEC) \div 100, 3600 * SEC, 36000 * SEC}

PositionYs == 0..100

InitCodec ==
    /\ Loaded
    /\ op = "call"
    /\ args \in [fn : {"hex_to_ass_color"}, hex_color : ColorInputs]
                \cup [fn : {"seconds_to_ass_time"}, seconds : TimeInputs]
                \cup [fn : {"alignment_to_ass"}, alignment : Alignment,
                      position_y : PositionYs]
    /\ result = <<>>

HexToAssColor ==
    /\ Calling("hex_to_ass_color")
    /\ result' = hex_to_ass_color(args.hex_color)
    /\ stages' = stages
    /\ Returned

SecondsToAssTime ==
    /\ Calling("seconds_to_ass_time")
    /\ result' = seconds_to_ass_time(args.seconds)
    /\ stages' = stages
    /\ Returned

AlignmentToAss ==
    /\ Calling("alignment_to_ass")
    /\ result' = alignment_to_ass(args.alignment, args.position_y)
    /\ stages' = stages
    /\ Returned

NextCodec == HexToAssColor \/ SecondsToAssTime \/ AlignmentToAss

SpecCodec == InitCodec /\ [][NextCodec]_vars

\* The text is '#' and n hex digits
IsHashHex(color, n) ==
    /\ Len(color) = n + 1
    /\ SubSeq(color, 1, 1) = "#"
    /\ \A i \in 2..(n + 1) : IsHexChar(SubSeq(color, i, i))

\* The two upper-case digits of the byte at digits a, b of a colour text
ByteOf(color, a, b) == upper(SubSeq(color, a, a) \o SubSeq(color, b, b))

\* C18: hex_to_ass_color maps '#RRGGBB', and '#RGB' with each digit
\* doubled, to "&H00" then BB, GG, RR, each of two upper-case hex digits:
\* #FFFFFF -> &H00FFFFFF, #FF0000 -> &H000000FF, #00FF00 -> &H0000FF00,
\* #0000FF -> &H00FF0000.
C18_ColorBGR ==
    op = "hex_to_ass_color" =>
        /\ IsHashHex(args.hex_color, 6) =>
              result = Ok("&H00" \o ByteOf(args.hex_color, 6, 7)
                          \o ByteOf(args.hex_color, 4, 5) \o ByteOf(args.hex_color, 2, 3))
        /\ IsHashHex(args.hex_color, 3) =>
              result = Ok("&H00" \o ByteOf(args.hex_color, 4, 4)
                          \o ByteOf(args.hex_color, 3, 3) \o ByteOf(args.hex_color, 2, 2))
        /\ args.hex_color = "#FFFFFF" => result = Ok("&H00FFFFFF")
        /\ args.hex_color = "#FF0000" => result = Ok("&H000000FF")
        /\ args.hex_color = "#00FF00" => result = Ok("&H0000FF00")
        /\ args.hex_color = "#0000FF" => result = Ok("&H00FF0000")

\* A lower-case colour whose three bytes differ has been converted.
C18_Witness ==
    /\ op = "hex_to_ass_color"
    /\ args.hex_color = "#0aF0c8"
    /\ result = Ok("&H00C8F00A")

\* H:MM:SS.CC of a time of whole ticks, in exact arithmetic
DocTime(seconds) ==
    ToString(seconds \div (3600 * SEC)) \o ":"
    \o IntStr02((seconds % (3600 * SEC)) \div (60 * SEC)) \o ":"
    \o IntStr02((seconds % (60 * SEC)) \div SEC) \o "."
    \o IntStr02(((seconds % SEC) * 100) \div SEC)

\* C19: seconds_to_ass_time maps every time s >= 0 to H:MM:SS.CC with
\* H = floor(s / 3600), MM = floor((s mod 3600) / 60), SS = floor(s mod 60)
\* and CC the fractional part of s truncated to two digits, MM, SS and CC
\* zero-padded to two digits: 0 -> 0:00:00.00, 1.5 -> 0:00:01.50,
\* 65.5 -> 0:01:05.50, 3723.45 -> 1:02:03.45.
C19_DocTime ==
    (op = "seconds_to_ass_time" /\ args.seconds >= 0) =>
        /\ result = DocTime(args.seconds)
        /\ args.seconds = (372345 * SEC) \div 100 => result = "1:02:03.45"

\* C20: alignment_to_ass returns, for left, center and right and every
\* position_y in 0..100, the band offset (6 below 33, 3 from 33 and below
\* 66, 0 otherwise) plus the horizontal offset (left 1, center 2, right 3),
\* a grid code in 1..9.
C20_GridCode ==
    (op = "alignment_to_ass" /\ args.alignment \in {"left", "center", "right"}
                             /\ args.position_y \in 0..100) =>
        /\ result \in 1..9
        /\ result = (CASE args.position_y < 33 -> 6
                       [] 33 <= args.position_y /\ args.position_y < 66 -> 3
                       [] OTHER -> 0)
                    + (CASE args.alignment = "left" -> 1
                         [] args.alignment = "center" -> 2
                         [] args.alignment = "right" -> 3)

\* The code of the first position_y of the middle band has been computed.
C20_Witness ==
    /\ op = "alignment_to_ass"
    /\ args.alignment = "right"
    /\ args.position_y = 33
    /\ result = 6

-----------------------------------------------------------------------------
(* Line counts and greediness of the segmenter (under SpecSegment). *)

\* The running character count of a line: its word lengths plus one per word
RECURSIVE LineChars(_)
LineChars(words) ==
    IF words = <<>> THEN 0 ELSE Len(Head(words).text) + 1 + LineChars(Tail(words))

\* No run of up to k consecutive words reaches beyond max_chars_per_line:
\* the character limit never binds
NeverBinds(words, k, max_chars_per_line) ==
    \A i \in DOMAIN words :
        \A j \in i..Len(words) :
            j - i < k => LineChars(SubSeq(words, i, j)) <= max_chars_per_line

\* C21: when the character limit never binds, N words with
\* words_per_line = k >= 1 give ceil(N / k) lines: every line but the last
\* holds k words, the last the remainder, line i holding the words from
\* (i - 1) * k + 1 on in their order (8 words with k = 3 give 3, 3, 2).
C21_LineCount ==
    (Segmented /\ args.words_per_line >= 1
               /\ NeverBinds(args.words, args.words_per_line, args.max_chars_per_line)) =>
        /\ Len(result) = (Len(args.words) + args.words_per_line - 1) \div args.words_per_line
        /\ \A i \in DOMAIN result :
              result[i].words =
                 SubSeq(args.words, (i - 1) * args.words_per_line + 1,
                        IF i * args.words_per_line < Len(args.words)
                        THEN i * args.words_per_line ELSE Len(args.words))
        /\ (Len(args.words) = 8 /\ args.words_per_line = 3) =>
              /\ Len(result) = 3
              /\ Len(result[1].words) = 3
              /\ Len(result[2].words) = 3
              /\ Len(result[3].words) = 2

\* The eight words of the test have been segmented three to a line.
C21_Witness ==
    /\ Segmented
    /\ args.words = TestWords
    /\ args.words_per_line = 3
    /\ NeverBinds(args.words, args.words_per_line, args.max_chars_per_line)
    /\ Len(result) = 3

\* C25: segmentation is greedy: the first word of every line after the
\* first could not have been appended to the line before it, which already
\* holds words_per_line words, or whose running character count plus that
\* word's length plus one exceeds max_chars_per_line.
C25_Greedy ==
    Segmented =>
        \A i \in DOMAIN result :
            i > 1 =>
                \/ Len(result[i - 1].words) >= args.words_per_line
                \/ LineChars(result[i - 1].words) + Len(result[i].words[1].text) + 1
                      > args.max_chars_per_line

\* A line closed by the word limit alone and a line closed by the character
\* limit alone, in one segmentation.
C25_Witness ==
    /\ Segmented
    /\ \E i \in DOMAIN result :
          /\ i > 1
          /\ Len(result[i - 1].words) >= args.words_per_line
          /\ LineChars(result[i - 1].words) + Len(result[i].words[1].text) + 1
                <= args.max_chars_per_line
    /\ \E i \in DOMAIN result :
          /\ i > 1
          /\ Len(result[i - 1].words) < args.words_per_line
          /\ LineChars(result[i - 1].words) + Len(result[i].words[1].text) + 1
                > args.max_chars_per_line

-----------------------------------------------------------------------------
(* The style functions alone: one call of the function the registry gives  *)
(* for a style, on the words of one line and a theme.                      *)

MaxLineWords == 2   \* most words of a line given to a style function

\* Texts with a brace, a backslash and a newline
AnimTexts == {"a", "{b}", "c\\d", "e\nf", "x}\\{"}

\* The first word starts at 0 or later; the next ones 0.4 s after the
\* previous start, with or without 0.25 s of silence more
AnimStarts == {0, SEC \div 2}

AnimSteps == {(4 * SEC) \div 10, (65 * SEC) \div 100}

RECURSIVE anim_words(_, _, _)
anim_words(shape, i, start) ==
    IF i > Len(shape) THEN <<>>
    ELSE <<Word(shape[i][1], start, start + (4 * SEC) \div 10, 1)>>
         \o anim_words(shape, i + 1, start + shape[i][2])

AnimWordLists ==
    UNION {{anim_words(shape, 1, start) :
               shape \in [1..n -> AnimTexts \X AnimSteps], start \in AnimStarts} :
           n \in 0..MaxLineWords}

AnimThemes == {[THEME_HORMOZI EXCEPT !.uppercase = u] : u \in BOOLEAN}

InitAnimate ==
    /\ Loaded
    /\ op = "call"
    /\ args \in [fn : {"animation_func"}, style : DOMAIN ANIMATIONS,
                 words : AnimWordLists, theme : AnimThemes]
    /\ result = <<>>

\* animation_func = get_animation(style); animation_func(words, theme)
AnimationFunc ==
    /\ Calling("animation_func")
    /\ result' = call_animation(get_animation(args.style).value, args.words, args.theme)
    /\ stages' = stages
    /\ Returned

SpecAnimate == InitAnimate /\ [][AnimationFunc]_vars

Animated == op = "animation_func" /\ IsOk(result)

\* What a character of a word's text is shown as: escaped, and upper-cased
\* when asked
ShownChar(c, uppercase) ==
    CASE c = "\\" -> "\\\\"
      [] c = "{" -> "\\{"
      [] c = "}" -> "\\}"
      [] c = "\n" -> "\\N"
      [] OTHER -> IF uppercase THEN UpperChar(c) ELSE c

Shown(text, uppercase) ==
    Str([i \in 1..Len(text) |-> ShownChar(SubSeq(text, i, i), uppercase)])

\* The text of a fragment outside its override blocks, as a renderer reads
\* it: a backslash takes the character after it with it, a "{" opens a block
\* that ends with the next "}"
RECURSIVE Literal(_, _)
Literal(text, i) ==
    IF i > Len(text) THEN ""
    ELSE IF SubSeq(text, i, i) = "\\"
    THEN SubSeq(text, i, IF i < Len(text) THEN i + 1 ELSE i) \o Literal(text, i + 2)
    ELSE IF SubSeq(text, i, i) = "{" THEN Literal(text, TagEnd(text, i) + 1)
    ELSE SubSeq(text, i, i) \o Literal(text, i + 1)

\* C22: in all 7 styles each word's text is escaped (the backslash first,
\* then "{", "}" and the newline) and then upper-cased when theme.uppercase:
\* outside the override blocks a fragment reads as the escaped words joined
\* by single spaces, so no word opens or closes a block; no fragment holds a
\* newline; and the fragment of 'none' is those words and nothing else.
C22_Escaped ==
    Animated =>
        /\ Literal(result.value, 1)
              = Join(" ", [j \in DOMAIN args.words |->
                              Shown(args.words[j].text, args.theme.uppercase)])
        /\ \A i \in 1..Len(result.value) : SubSeq(result.value, i, i) # "\n"
        /\ args.style = "none" =>
              result.value = Join(" ", [j \in DOMAIN args.words |->
                                           Shown(args.words[j].text, args.theme.uppercase)])

\* A style with override blocks has been applied to a word with braces and
\* a word with a backslash.
C22_Witness ==
    /\ Animated
    /\ args.style = "glow"
    /\ Len(args.words) = 2
    /\ args.words[1].text = "x}\\{"
    /\ args.words[2].text = "c\\d"
    /\ args.theme.uppercase

\* The intervals <<t1, t2>> of the \t(t1,t2,...) transforms of a fragment
\* from position i on, in order
RECURSIVE Transforms(_, _)
Transforms(text, i) ==
    With(Find(text, i, "("), LAMBDA p :
        IF p > Len(text) THEN <<>>
        ELSE IF p < 3 \/ SubSeq(text, p - 2, p) # "\\t(" THEN Transforms(text, p + 1)
        ELSE With(Find(text, p, ","), LAMBDA c1 :
             With(Find(text, c1 + 1, ","), LAMBDA c2 :
                 <<<<ParseInt(SubSeq(text, p + 1, c1 - 1)),
                     ParseInt(SubSeq(text, c1 + 1, c2 - 1))>>>>
                 \o Transforms(text, c2 + 1))))

\* The intervals a style gives word j of a line, r being the word's start
\* after the line's first word's in ms and i = j - 1 the word's index
StyleIntervals(style, r, i) ==
    CASE style = "pop" -> <<<<0, r>>, <<r, r + 100>>, <<r + 100, r + 180>>>>
      [] style = "typewriter" -> <<<<0, r>>, <<r, r + 50>>>>
      [] style = "bounce" -> <<<<50 * i, 50 * i + 200>>, <<50 * i + 200, 50 * i + 300>>>>
      [] style = "glow" -> <<<<100 * i, 100 * i + 150>>, <<100 * i + 150, 100 * i + 300>>>>
      [] style = "wave" -> <<<<100 * i, 100 * i + 200>>, <<100 * i + 200, 100 * i + 400>>>>
      [] OTHER -> <<>>

RECURSIVE LineIntervals(_, _, _)
LineIntervals(style, words, j) ==
    IF j > Len(words) THEN <<>>
    ELSE StyleIntervals(style, ((words[j].start - words[1].start) * 1000) \div SEC, j - 1)
         \o LineIntervals(style, words, j + 1)

-----------------------------------------------------------------------------
(* The times of the rows of a generate_ass document (under Spec). *)

\* generate_ass has returned a document for words that validate_words accepts
BuiltOfValid == Built /\ validate_words(args.words) = <<>>

\* C27: for every word list that validate_words accepts and every padding
\* amount >= 0, 0 included, each Dialogue row of generate_ass has
\* End >= Start.
C27_RowEndAfterStart ==
    (BuiltOfValid /\ PaddingOf(args) >= 0) =>
        \A i \in DOMAIN result.value.events :
            ass_time_to_seconds(result.value.events[i].End)
               >= ass_time_to_seconds(result.value.events[i].Start)

\* C28: for every word list that validate_words accepts, with padding or
\* without, every transform \t(t1,t2,...) of the pop and typewriter styles
\* has 0 <= t1 <= t2: no word starts before the first word of its line.
C28_TransformsForward ==
    (BuiltOfValid /\ stages.theme[1].animation_style \in {"pop", "typewriter"}) =>
        \A i \in DOMAIN result.value.events :
            \A k \in DOMAIN Transforms(result.value.events[i].Text, 1) :
                /\ 0 <= Transforms(result.value.events[i].Text, 1)[k][1]
                /\ Transforms(result.value.events[i].Text, 1)[k][1]
                      <= Transforms(result.value.events[i].Text, 1)[k][2]

\* Each word starts at or after the end of the word before it
NonOverlapping(words) ==
    \A i \in DOMAIN words : i > 1 => words[i]["start"] >= words[i - 1]["end"]

\* C29: for every word list whose words do not overlap and every padding
\* amount >= 0, the rows of consecutive lines do not overlap in time: each
\* row's End is at most the next row's Start, and the Starts do not
\* decrease in row order.
C29_RowsDisjoint ==
    (BuiltOfValid /\ NonOverlapping(args.words) /\ PaddingOf(args) >= 0) =>
        \A i \in DOMAIN result.value.events :
            i > 1 =>
                /\ ass_time_to_seconds(result.value.events[i - 1].End)
                      <= ass_time_to_seconds(result.value.events[i].Start)
                /\ ass_time_to_seconds(result.value.events[i - 1].Start)
                      <= ass_time_to_seconds(result.value.events[i].Start)

-----------------------------------------------------------------------------
(* An ASSBuilder driven directly: up to MaxBuilderCalls calls of add_style, *)
(* add_dialogue and build on one builder.  stages is the builder, history   *)
(* the calls made, result what the last build returned.                     *)

MaxBuilderCalls == 5

BuilderThemes == {THEME_HORMOZI, THEME_CLEAN}

BuilderTexts == {"one", "two"}

InitBuilder ==
    /\ catalog = DEFAULT_THEMES
    /\ stages = ASSBuilder(1920, 1080)
    /\ op = "__init__"
    /\ args = <<>>
    /\ result = <<>>
    /\ history = <<>>
    /\ pc = [t \in Threads |-> "idle"]
    /\ frame = [t \in Threads |-> <<>>]

\* A call of method fn with arguments call_args changes the builder to
\* `builder` and returns `returned`
BuilderCall(fn, call_args, builder, returned) ==
    /\ Len(history) < MaxBuilderCalls
    /\ op' = fn
    /\ args' = call_args
    /\ stages' = builder
    /\ result' = returned
    /\ history' = Append(history, [fn |-> fn, args |-> call_args])
    /\ UNCHANGED <<catalog, pc, frame>>

BuilderAddStyle ==
    \E theme \in BuilderThemes :
        BuilderCall("add_style", [theme |-> theme, style_name |-> theme.name],
                    add_style(stages, theme, theme.name).value, result)

BuilderAddDialogue ==
    \E text \in BuilderTexts :
        BuilderCall("add_dialogue",
                    [text |-> text, start |-> Len(stages.dialogues) * SEC,
                     end |-> (Len(stages.dialogues) + 1) * SEC, style |-> "Default"],
                    add_dialogue(stages, text, Len(stages.dialogues) * SEC,
                                 (Len(stages.dialogues) + 1) * SEC, "Default"),
                    result)

\* build assigns nothing to the builder
BuilderBuild == BuilderCall("build", <<>>, stages, build_parts(stages))

NextBuilder == BuilderAddStyle \/ BuilderAddDialogue \/ BuilderBuild

SpecBuilder == InitBuilder /\ [][NextBuilder]_vars

\* The rows that the calls of method fn in a history insert, in call order
RECURSIVE InsertedRows(_, _)
InsertedRows(calls, fn) ==
    IF calls = <<>> THEN <<>>
    ELSE (IF Head(calls).fn # fn THEN <<>>
          ELSE IF fn = "add_style"
          THEN <<build_style(ASSBuilder(1920, 1080), Head(calls).args.theme,
                             Head(calls).args.style_name).value>>
          ELSE <<build_dialogue_line(Head(calls).args.text, Head(calls).args.start,
                                     Head(calls).args.end, Head(calls).args.style)>>)
         \o InsertedRows(Tail(calls), fn)

\* C30: build is read-only: after any sequence of add_style, add_dialogue
\* and build calls, a build leaves the builder's styles and dialogues as
\* they were, returns the sections Script Info, V4+ Styles, Events in that
\* order with the style rows and the dialogue rows in insertion order, and a
\* build right after a build returns the same text.
C30_BuildReadOnly ==
    /\ [](op = "build" =>
            /\ Len(result) = 3
            /\ result[1] = build_header(stages)
            /\ result[2] = [section |-> "[V4+ Styles]",
                            rows |-> InsertedRows(history, "add_style")]
            /\ result[3] = [section |-> "[Events]",
                            rows |-> InsertedRows(history, "add_dialogue")])
    /\ [][op' = "build" =>
            /\ stages'.styles = stages.styles
            /\ stages'.dialogues = stages.dialogues
            /\ op = "build" => result' = result]_vars

\* A second build in a row, on a builder with a style and two dialogue rows.
C30_Witness ==
    /\ op = "build"
    /\ Len(history) >= 2
    /\ history[Len(history) - 1].fn = "build"
    /\ Len(stages.styles) >= 1
    /\ Len(stages.dialogues) >= 2
    /\ stages.dialogues[1] # stages.dialogues[2]

-----------------------------------------------------------------------------
(* generate_ass on objects.  The heap is the sequence of the objects that   *)
(* exist, a reference is an object's index: the Theme objects of the        *)
(* catalog first, then the caller's theme argument, the caller's words and  *)
(* the caller's list of them; an object made during the call is appended.   *)
(* An object is [class, items, enums]: items holds the fields of a Theme or *)
(* a Word, the keys of a dict, the characters of a str, the references of a *)
(* list; enums is the set of keys of a dict whose value is a member of an   *)
(* enum (Alignment("center")) and not the str it was made from.             *)

Obj(class, items) == [class |-> class, items |-> items, enums |-> {}]

\* list(DEFAULT_THEMES.keys())
CatalogKeys ==
    <<"hormozi", "beast", "clean", "neon", "minimal", "bold", "gradient", "sara">>

\* The reference of the Theme object DEFAULT_THEMES[key]
catalog_ref(key) == CHOOSE i \in DOMAIN CatalogKeys : CatalogKeys[i] = key

\* The Theme objects the module creates on import
LoadedHeap(themes) == [i \in DOMAIN CatalogKeys |-> Obj("Theme", themes[CatalogKeys[i]])]

\* The reference of the caller's theme argument, of the caller's i-th word
\* and of the caller's list of n words
ThemeArgRef == Len(CatalogKeys) + 1

WordArgRef(i) == ThemeArgRef + i

WordsArgRef(n) == ThemeArgRef + n + 1

\* The object a theme argument is
ThemeArgObj(theme) ==
    IF theme.type = "str" THEN Obj("str", theme.name)
    ELSE IF theme.type = "Theme" THEN Obj("Theme", theme.theme)
    ELSE IF theme.type = "dict" THEN Obj("dict", theme.data)
    ELSE Obj("int", theme.number)

\* The heap when generate_ass is called with `words` (a sequence of
\* [class, items], class Word or dict) and `theme`
CallHeap(themes, words, theme) ==
    LoadedHeap(themes)
    \o <<ThemeArgObj(theme)>>
    \o [i \in DOMAIN words |-> Obj(words[i].class, words[i].items)]
    \o <<Obj("list", [i \in DOMAIN words |-> WordArgRef(i)])>>

\* data[key] = members(data[key]): the member replaces the str in the
\* caller's dict; a value that is no member raises before the store
enum_store(heap, ref, key, members) ==
    IF key \in DOMAIN heap[ref].items /\ heap[ref].items[key] \in members
    THEN [heap EXCEPT ![ref].enums = @ \cup {key}]
    ELSE heap

\* Theme.from_dict(data) on the dict at ref: [heap, value], value the
\* reference of the new Theme
from_dict_obj(heap, ref) ==
    With(from_dict(heap[ref].items), LAMBDA made :
    With(enum_store(heap, ref, "alignment", Alignment), LAMBDA h1 :
    With(IF "alignment" \in DOMAIN heap[ref].items
            /\ heap[ref].items["alignment"] \notin Alignment
         THEN h1
         ELSE enum_store(h1, ref, "animation_style", AnimationStyle), LAMBDA h2 :
        IF IsError(made) THEN [heap |-> h2, value |-> made]
        ELSE [heap |-> Append(h2, Obj("Theme", made.value)),
              value |-> Ok(Len(h2) + 1)])))

\* _resolve_theme on the theme argument at ref: [heap, value], value the
\* reference of the resolved Theme
_resolve_theme_obj(heap, themes, ref) ==
    IF heap[ref].class = "Theme" THEN [heap |-> heap, value |-> Ok(ref)]
    ELSE IF heap[ref].class = "str"
    THEN With(get_theme(themes, heap[ref].items), LAMBDA got :
             [heap |-> heap,
              value |-> IF IsError(got) THEN got ELSE Ok(catalog_ref(got.value))])
    ELSE IF heap[ref].class = "dict" THEN from_dict_obj(heap, ref)
    ELSE [heap |-> heap,
          value |-> Raise("TypeError", "Invalid theme type: " \o heap[ref].class)]

\* A variant of deepcopy that hands back the object itself.
deepcopy_alias(heap, ref) == [heap |-> heap, ref |-> ref]

\* copy.deepcopy of the Theme at ref: a new object with the same fields
deepcopy(heap, ref) == [heap |-> Append(heap, heap[ref]), ref |-> Len(heap) + 1]

\* _apply_config_overrides on the Theme at ref: the copy, then the stores
\* of the overrides on the copy; [heap, ref]
_apply_config_overrides_obj(heap, ref, config) ==
    With(deepcopy(heap, ref), LAMBDA copied :
        [heap |-> [copied.heap EXCEPT ![copied.ref].items =
                        _apply_config_overrides(@, config)],
         ref |-> copied.ref])

\* The loop of _normalize_words over the references of the caller's list:
\* a Word is appended as it is, a dict makes a new Word; [heap, value]
RECURSIVE normalize_loop(_, _, _)
normalize_loop(heap, refs, normalized) ==
    IF refs = <<>> THEN [heap |-> heap, value |-> Ok(normalized)]
    ELSE IF heap[Head(refs)].class = "Word"
    THEN normalize_loop(heap, Tail(refs), Append(normalized, Head(refs)))
    ELSE IF heap[Head(refs)].class # "dict"
    THEN [heap |-> heap,
          value |-> Raise("TypeError", "Invalid word type: " \o heap[Head(refs)].class)]
    ELSE IF missing_key(heap[Head(refs)].items) # None
    THEN [heap |-> heap,
          value |-> Raise("KeyError", missing_key(heap[Head(refs)].items)[1])]
    ELSE normalize_loop(Append(heap, Obj("Word", normalize_word(heap[Head(refs)].items))),
                        Tail(refs), Append(normalized, Len(heap) + 1))

_normalize_words_obj(heap, ref) == normalize_loop(heap, heap[ref].items, <<>>)

\* The Word values behind a sequence of references
Values(heap, refs) == [i \in DOMAIN refs |-> heap[refs[i]].items]

\* The references `refs` cut as the lines are: one sequence per line
RECURSIVE LineRefs(_, _)
LineRefs(lines, refs) ==
    IF lines = <<>> THEN <<>>
    ELSE <<SubSeq(refs, 1, Len(Head(lines).words))>>
         \o LineRefs(Tail(lines), SubSeq(refs, Len(Head(lines).words) + 1, Len(refs)))

\* _add_line_padding: a new Word for every word of every line; [heap, refs]
_add_line_padding_obj(heap, lines, padding) ==
    With(ConcatLines(_add_line_padding(lines, padding)), LAMBDA new_words :
        [heap |-> heap \o [i \in DOMAIN new_words |-> Obj("Word", new_words[i])],
         refs |-> [i \in DOMAIN new_words |-> Len(heap) + i]])

\* generate_ass on the caller's objects: [heap, result, base, derived], base
\* the reference _resolve_theme returned, derived the one the document is
\* made with; None for a stage the call did not reach
generate_ass_obj(heap, themes, words_ref, theme_ref, video_width, video_height, config) ==
    LET cfg == IF config = None
               THEN GeneratorConfig(video_width, video_height)
               ELSE config[1]
    IN  With(_resolve_theme_obj(heap, themes, theme_ref), LAMBDA resolved :
        IF IsError(resolved.value)
        THEN [heap |-> resolved.heap, result |-> resolved.value,
              base |-> None, derived |-> None]
        ELSE
        With(_apply_config_overrides_obj(resolved.heap, resolved.value.value, cfg),
             LAMBDA overridden :
        With(_normalize_words_obj(overridden.heap, words_ref), LAMBDA word_objects :
        IF IsError(word_objects.value)
        THEN [heap |-> word_objects.heap, result |-> word_objects.value,
              base |-> Some(resolved.value.value), derived |-> Some(overridden.ref)]
        ELSE
        With(word_objects.heap[overridden.ref].items, LAMBDA resolved_theme :
        With(group_words_into_lines(Values(word_objects.heap, word_objects.value.value),
                                    resolved_theme.words_per_line,
                                    resolved_theme.max_chars_per_line), LAMBDA lines :
        With(IF cfg.add_padding > 0
             THEN _add_line_padding_obj(word_objects.heap, lines, cfg.add_padding)
             ELSE [heap |-> word_objects.heap, refs |-> word_objects.value.value],
             LAMBDA padded :
            [heap |-> padded.heap,
             result |-> create_ass_from_lines(
                            [i \in DOMAIN lines |->
                                CaptionLine(Values(padded.heap,
                                                   LineRefs(lines, padded.refs)[i]))],
                            resolved_theme, cfg.video_width, cfg.video_height),
             base |-> Some(resolved.value.value),
             derived |-> Some(overridden.ref)]))))))

\* The word lists of the calls on objects: Word objects, dicts, and both
ObjectWordLists ==
    {<<>>,
     <<[class |-> "Word", items |-> Word("Hello", 0, (4 * SEC) \div 10, 1)],
       [class |-> "Word", items |-> Word("world", (4 * SEC) \div 10, (8 * SEC) \div 10, 1)]>>,
     <<[class |-> "dict", items |-> E2EWords[1]],
       [class |-> "dict", items |-> E2EWords[2]]>>,
     <<[class |-> "Word", items |-> Word("Hello", 0, (4 * SEC) \div 10, 1)],
       [class |-> "dict", items |-> E2EWords[2]]>>,
     <<[class |-> "dict", items |-> [text |-> "Hello", start |-> 0]]>>}

ObjectThemeArgs ==
    {[type |-> "str", name |-> name] : name \in {"hormozi", "BEAST", "Unknown"}}
    \cup {[type |-> "dict", data |-> data] :
            data \in {[name |-> "Custom"],
                      [name |-> "Custom", animation_style |-> "pop"],
                      [name |-> "Custom", alignment |-> "left", animation_style |-> "zoom"],
                      [name |-> "Custom", alignment |-> "top", animation_style |-> "pop"]}}
    \cup {[type |-> "Theme", theme |-> THEME_CLEAN],
          [type |-> "int", number |-> 7]}

ObjectConfigs ==
    PipelineConfigs
    \cup {Some([GeneratorConfig(1920, 1080) EXCEPT !.animation_style = Some("wave"),
                                                   !.max_chars_per_line = Some(8)]),
          Some([GeneratorConfig(1920, 1080) EXCEPT !.words_per_line = Some(3),
                                                   !.add_padding = 0])}

ObjectCalls ==
    [fn : {"generate_ass"}, words : ObjectWordLists, theme : ObjectThemeArgs,
     video_width : {1080}, video_height : {1920}, config : ObjectConfigs]

\* stages holds the heap, and after the call the references of the base and
\* the derived theme.
InitObjects ==
    /\ catalog = DEFAULT_THEMES
    /\ op = "call"
    /\ args \in ObjectCalls
    /\ stages = [heap |-> CallHeap(catalog, args.words, args.theme),
                 base |-> None, derived |-> None]
    /\ result = <<>>
    /\ history = <<>>
    /\ pc = [t \in Threads |-> "idle"]
    /\ frame = [t \in Threads |-> <<>>]

GenerateAssOnObjects ==
    /\ Calling("generate_ass")
    /\ \E run \in {generate_ass_obj(stages.heap, catalog, WordsArgRef(Len(args.words)),
                                    ThemeArgRef, args.video_width, args.video_height,
                                    args.config)} :
          /\ result' = run.result
          /\ stages' = [heap |-> run.heap, base |-> run.base, derived |-> run.derived]
    /\ Returned

SpecObjects == InitObjects /\ [][GenerateAssOnObjects]_vars

\* The heap as it was when the call was made
HeapBefore == CallHeap(catalog, args.words, args.theme)

\* The config the call ran with
ConfigOf(call) ==
    IF call.config = None THEN GeneratorConfig(call.video_width, call.video_height)
    ELSE call.config[1]

OverrideFields == {"words_per_line", "max_chars_per_line", "animation_style", "position_y"}

\* C23: the theme generate_ass uses is a fresh object: it is not the base
\* theme nor any object that existed before the call; it differs from the
\* base only in those of words_per_line, max_chars_per_line, animation_style
\* and position_y that the config sets, which have the config's values; and
\* the base (catalog preset, caller's Theme, or the Theme made of the
\* caller's dict) has the field values it had.
C23_FreshDerivedTheme ==
    (Generated /\ stages.derived # None) =>
        LET base == stages.base[1]
            derived == stages.derived[1]
            config == ConfigOf(args)
        IN  /\ derived # base
            /\ derived > Len(HeapBefore)
            /\ \A ref \in DOMAIN stages.heap :
                  stages.heap[ref].class = "Theme" /\ ref # derived
                      => /\ ref <= Len(HeapBefore) => stages.heap[ref] = HeapBefore[ref]
                         /\ ref > Len(HeapBefore)
                               => stages.heap[ref].items = from_dict(args.theme.data).value
            /\ \A field \in ThemeFields :
                  stages.heap[derived].items[field] =
                      IF field \in OverrideFields /\ config[field] # None
                      THEN config[field][1]
                      ELSE stages.heap[base].items[field]

\* A document made with the catalog's hormozi under a config that sets
\* words_per_line and position_y to other values than the preset's.
C23_Witness ==
    /\ Generated
    /\ IsOk(result)
    /\ stages.base = Some(catalog_ref("hormozi"))
    /\ ConfigOf(args).words_per_line = Some(1)
    /\ stages.heap[stages.derived[1]].items.words_per_line = 1
    /\ stages.heap[stages.base[1]].items.words_per_line = 3
    /\ stages.heap[stages.derived[1]].items.position_y = 20
    /\ stages.heap[stages.base[1]].items.position_y = 70

\* The references of the objects the caller passed: the theme argument, the
\* words and the list of them
ArgRefs == ThemeArgRef..WordsArgRef(Len(args.words))

\* C24: generate_ass leaves its inputs unchanged: after the call the list
\* holds the same words, every word (Word or dict) has the text, start, end
\* and confidence it had, and the theme argument (Theme or dict) has the
\* values it had.
C24_InputsUnchanged ==
    Generated => \A ref \in ArgRefs : stages.heap[ref] = HeapBefore[ref]

====
